---- MODULE Spec2Model ----
(***************************************************************************)
(* Secure dynamic function execution subsystem of the AI API generator:    *)
(* the function catalog (storage/functions.json), the two invocation       *)
(* handlers (the per-function route registered at startup and the          *)
(* catch-all POST /api/:functionName), the management requests (create,    *)
(* update, delete) and the execution telemetry (storage/logs/<name>.json). *)
(*                                                                         *)
(* Node runs the handlers on one event loop: a handler runs without        *)
(* interruption from one `await` to the next, so every action below is one *)
(* such synchronous segment of a handler.                                  *)
(***************************************************************************)
EXTENDS Integers, Sequences, FiniteSets, TLC

VARIABLES
    catalog,    \* storage/functions.json: function name -> stored record
    routes,     \* Fastify's static table of per-function routes
    inv,        \* the invocation requests, one record of handler locals each
    req,        \* the management requests (create / update / delete)
    logs,       \* storage/logs/<name>.json: name -> entries, newest first
    prevSize,   \* size of each history when the server started
    now,        \* the clock read by `new Date()`
    issued,     \* number of tokens generateApiToken has produced
    reply,      \* the last answer of a telemetry or authentication probe
    builtins    \* the process's Math, Object, JSON, ... that every sandbox receives

vars == <<catalog, routes, inv, req, logs, prevSize, now, issued, reply, builtins>>

(***************************************************************************)
(* Bounds of the model                                                     *)
(***************************************************************************)
MaxCalls == 1        \* invocations interleaved with management requests
MaxReq == 1          \* management requests per behaviour
MaxInv == 2          \* concurrent invocations racing on the telemetry
MaxMgmt == 2         \* management requests that may overlap
MaxHeaderTail == 3   \* characters after the bearer prefix in a probed header

Calls == 1..MaxCalls
Invs == 1..MaxInv
Reqs == 1..MaxReq
Mgmts == 1..MaxMgmt
ReqSlots == Reqs \cup Mgmts
Slots == Calls \cup Invs

(***************************************************************************)
(* Program constants                                                       *)
(***************************************************************************)
SANDBOX_TIMEOUT == 5000
LogCap == 100
DefaultLimit == 20
BearerLen == 7

Names == {"f", "logs"}
SystemRoutes == {"functions", "generate-example", "analytics", "logs"}

(***************************************************************************)
(* Small helpers                                                           *)
(***************************************************************************)
Min(a, b) == IF a < b THEN a ELSE b
Max(a, b) == IF a > b THEN a ELSE b

\* Array.prototype.slice(start, end) on a 0-based array, as a 1-based sequence.
Slice(s, start, end) ==
    LET n  == Len(s)
        from == IF start < 0 THEN Max(n + start, 0) ELSE Min(start, n)
        to   == IF end < 0 THEN Max(n + end, 0) ELSE Min(end, n)
    IN  IF to <= from THEN <<>> ELSE SubSeq(s, from + 1, to)

\* String.prototype.trim
IsSpace(c) == c = " "
RECURSIVE TrimLeft(_)
TrimLeft(s) == IF s # <<>> /\ IsSpace(Head(s)) THEN TrimLeft(Tail(s)) ELSE s
RECURSIVE TrimRight(_)
TrimRight(s) ==
    IF s # <<>> /\ IsSpace(s[Len(s)]) THEN TrimRight(SubSeq(s, 1, Len(s) - 1)) ELSE s
Trim(s) == TrimRight(TrimLeft(s))

\* String.prototype.startsWith
StartsWith(s, p) == Len(s) >= Len(p) /\ SubSeq(s, 1, Len(p)) = p

\* String.prototype.substring(k) for 0 <= k
Substring(s, k) == IF k >= Len(s) THEN <<>> ELSE SubSeq(s, k + 1, Len(s))

(***************************************************************************)
(* Tokens and authorization headers, as sequences of characters            *)
(***************************************************************************)
Bearer == <<"B", "e", "a", "r", "e", "r", " ">>
NoHeader == <<"<absent>">>    \* headers['authorization'] === undefined

\* generateApiToken: a fresh random token; the n-th one issued
generateApiToken(n) == [k \in 1..n |-> "a"]
NoToken == <<>>

(***************************************************************************)
(* Contracts, payloads and values                                          *)
(***************************************************************************)
NumV == [t |-> "number"]
StrV == [t |-> "string"]
Undefined == [t |-> "undefined"]

Input(name, type, required) == [name |-> name, type |-> type, required |-> required]
ContractN  == <<Input("n", "number", TRUE)>>
ContractNS == <<Input("n", "number", TRUE), Input("s", "string", FALSE)>>
Contracts  == {ContractN, ContractNS}

\* A JSON object is its sequence of key/value pairs, in key order.
Pair(k, v) == [k |-> k, v |-> v]
HasKey(obj, k) == \E j \in 1..Len(obj) : obj[j].k = k
Get(obj, k) ==
    IF HasKey(obj, k)
    THEN obj[CHOOSE j \in 1..Len(obj) : obj[j].k = k].v
    ELSE Undefined
Keys(obj) == [j \in 1..Len(obj) |-> obj[j].k]

BodyOk     == <<Pair("n", NumV)>>
BodyBad    == <<Pair("n", StrV)>>
BodyEmpty  == <<>>
BodyExtra  == <<Pair("s", NumV), Pair("n", NumV)>>
Bodies     == {BodyOk, BodyBad, BodyEmpty, BodyExtra}

(***************************************************************************)
(* Generated code.  A snippet is the name of the function it declares and  *)
(* its body; the tables give, for each body, the denylist patterns that    *)
(* match its text and what the body does when the sandbox calls it.        *)
(*   double     return n * 2;                                              *)
(*   void       (no return statement)                                      *)
(*   loop       while (true) {}                                            *)
(*   throw      throw new Error('boom');                                   *)
(*   secret     return secret;            (a binding off the allow-list)   *)
(*   process    return process.env.KEY;                                    *)
(*   evalproc   return EVAL('process.exit()');                             *)
(*   pOk        return Promise.resolve(n * 2);                             *)
(*   pRej       return Promise.reject(new Error('boom'));                  *)
(*   pNever     return new Promise(() => {});                              *)
(*   stateful   if (Math.seen) return; Math.seen = true; return n * 2;     *)
(*   saysTimed  throw new Error('Script execution timed out');             *)
(*   saysUndef  throw new Error('quota is not defined');                   *)
(***************************************************************************)
BodyKinds == {"double", "void", "loop", "throw", "secret", "process", "evalproc",
              "pOk", "pRej", "pNever"}
Snippet(decl, kind) == [decl |-> decl, kind |-> kind]

\* The built-in objects of the process as they are at startup, and after a
\* sandboxed function has set a property on one of them
Pristine == "pristine"
Marked == "marked"
NoCode == [decl |-> "", kind |-> "none"]

dangerousPatterns ==
    <<"require(", "import ", "process.", "fs.", "child_process", "exec(",
      "eval(", "Function(", "__dirname", "__filename", "global.", "globalThis.">>

\* A snippet given by its text, a sequence of characters
\* and by what it does when the executor runs its cleaned form
Source(decl, text, runs) == [decl |-> decl, kind |-> "text", text |-> text, runs |-> runs]
\* A text that is no function declaration: running it throws
TextSnippet(decl, text) == Source(decl, text, "throw")

\* The regular expressions of the denylist, as sequences of atoms: a
\* character, "\\s*" or "\\s+"
Regex(pattern) ==
    CASE pattern = "require(" -> <<"r", "e", "q", "u", "i", "r", "e", "\\s*", "(">>
      [] pattern = "import " -> <<"i", "m", "p", "o", "r", "t", "\\s+">>
      [] pattern = "process." -> <<"p", "r", "o", "c", "e", "s", "s", ".">>
      [] pattern = "fs." -> <<"f", "s", ".">>
      [] pattern = "child_process" -> <<"c", "h", "i", "l", "d", "_", "p", "r", "o", "c", "e", "s", "s">>
      [] pattern = "exec(" -> <<"e", "x", "e", "c", "\\s*", "(">>
      [] pattern = "eval(" -> <<"e", "v", "a", "l", "\\s*", "(">>
      [] pattern = "Function(" -> <<"F", "u", "n", "c", "t", "i", "o", "n", "\\s*", "(">>
      [] pattern = "__dirname" -> <<"_", "_", "d", "i", "r", "n", "a", "m", "e">>
      [] pattern = "__filename" -> <<"_", "_", "f", "i", "l", "e", "n", "a", "m", "e">>
      [] pattern = "global." -> <<"g", "l", "o", "b", "a", "l", ".">>
      [] pattern = "globalThis." -> <<"g", "l", "o", "b", "a", "l", "T", "h", "i", "s", ".">>

UpperCase == <<"A", "B", "C", "D", "E", "F", "G", "H", "I", "J", "K", "L", "M",
               "N", "O", "P", "Q", "R", "S", "T", "U", "V", "W", "X", "Y", "Z">>
LowerCase == <<"a", "b", "c", "d", "e", "f", "g", "h", "i", "j", "k", "l", "m",
               "n", "o", "p", "q", "r", "s", "t", "u", "v", "w", "x", "y", "z">>
ToLower(c) ==
    IF \E j \in 1..Len(UpperCase) : UpperCase[j] = c
    THEN LowerCase[CHOOSE j \in 1..Len(UpperCase) : UpperCase[j] = c]
    ELSE c
ToUpper(c) ==
    IF \E j \in 1..Len(LowerCase) : LowerCase[j] = c
    THEN UpperCase[CHOOSE j \in 1..Len(LowerCase) : LowerCase[j] = c]
    ELSE c

\* What \s matches
IsWhite(c) == c \in {" ", "\t", "\n"}

\* Mutant: the expressions are compiled without the i flag
AtomAcceptsCaseSensitive(atom, c) == atom = c

\* A character atom under the i flag
AtomAccepts(atom, c) == ToLower(atom) = ToLower(c)

\* The atoms regex[k..] match the text from position pos on
RECURSIVE MatchAt(_, _, _, _)
MatchAt(regex, k, text, pos) ==
    IF k > Len(regex) THEN TRUE
    ELSE IF regex[k] = "\\s*"
         THEN IF MatchAt(regex, k + 1, text, pos) THEN TRUE
              ELSE IF pos <= Len(text) /\ IsWhite(text[pos])
                   THEN MatchAt(regex, k, text, pos + 1)
              ELSE FALSE
    ELSE IF regex[k] = "\\s+"
         THEN IF pos <= Len(text) /\ IsWhite(text[pos])
              THEN (IF MatchAt(regex, k + 1, text, pos + 1) THEN TRUE
                    ELSE MatchAt(regex, k, text, pos + 1))
              ELSE FALSE
    ELSE IF pos <= Len(text) /\ AtomAccepts(regex[k], text[pos])
         THEN MatchAt(regex, k + 1, text, pos + 1)
    ELSE FALSE

\* pattern.test(code) of an expression whose lastIndex is 0: the expressions
\* are created by each call of validateCodeSafety
RegexTest(regex, text) == \E pos \in 1..(Len(text) + 1) : MatchAt(regex, 1, text, pos)

\* pattern.test(code): the patterns (all case-insensitive) that match the text
PatternTest(pattern, code) ==
    CASE code.kind = "text"     -> RegexTest(Regex(pattern), code.text)
      [] code.kind = "process"  -> pattern = "process."
      [] code.kind = "evalproc" -> pattern \in {"process.", "eval("}
      [] OTHER -> FALSE

\* What the declared function does when it is called
Behaviour(code) ==
    CASE code.kind = "double"   -> "value"
      [] code.kind = "void"     -> "undefined"
      [] code.kind = "loop"     -> "loop"
      [] code.kind = "throw"    -> "throw"
      [] code.kind = "secret"   -> "notDefined"
      [] code.kind = "process"  -> "notDefined"
      [] code.kind = "evalproc" -> "notDefined"
      [] code.kind = "pOk"      -> "promiseFulfils"
      [] code.kind = "pRej"     -> "promiseRejects"
      [] code.kind = "pNever"   -> "promisePending"
      [] code.kind = "text"     -> code.runs
      [] OTHER -> "throw"

(***************************************************************************)
(* The function catalog (function-storage.ts)                              *)
(***************************************************************************)
NoDoc == [by |-> "none", name |-> "", logic |-> "", inputs |-> <<>>,
          output |-> "", token |-> NoToken]
CallerDoc == [by |-> "caller", name |-> "", logic |-> "", inputs |-> <<>>,
              output |-> "", token |-> NoToken]

\* generateDocumentation(name, description, baseUrl, token)
generateDocumentation(name, data, token) ==
    [by |-> "generator", name |-> name, logic |-> data.logic,
     inputs |-> data.inputs, output |-> data.output, token |-> token]

\* A validated request body of a create or an update (functionDescriptionSchema)
Description(name, inputs, logic, output, documentation) ==
    [name |-> name, inputs |-> inputs, logic |-> logic, output |-> output,
     documentation |-> documentation]
NoDesc == Description("", <<>>, "", "", NoDoc)

NoFn == [name |-> "", code |-> NoCode, token |-> NoToken, createdAt |-> 0,
         description |-> NoDesc]

\* getFunction: loadFunctions()[functionName] || null
\* loadFunctions: the stored records, a token issued to each record that has none
\* (n tokens were issued so far): <<catalog, issued>>
RECURSIVE Migrate(_, _, _)
Migrate(cat, n, todo) ==
    IF todo = {} THEN <<cat, n>>
    ELSE LET name == CHOOSE m \in todo : TRUE
         IN  IF cat[name] # NoFn /\ cat[name].token = NoToken
             THEN Migrate([cat EXCEPT ![name].token = generateApiToken(n + 1)], n + 1,
                          todo \ {name})
             ELSE Migrate(cat, n, todo \ {name})
loadFunctions(cat, n) == Migrate(cat, n, DOMAIN cat)

getFunction(cat, functionName) ==
    IF functionName \in DOMAIN cat THEN cat[functionName] ELSE NoFn

\* functionExists: functionName in loadFunctions()
functionExists(cat, functionName) ==
    functionName \in DOMAIN cat /\ cat[functionName] # NoFn

\* saveFunction: functions[functionData.name] = functionData
saveFunction(cat, functionData) ==
    [cat EXCEPT ![functionData.name] = functionData]

\* deleteFunction (its caller has checked, or catches, the missing name)
deleteFunction(cat, functionName) ==
    [cat EXCEPT ![functionName] = NoFn]

(***************************************************************************)
(* Token Authenticator (validateToken)                                     *)
(***************************************************************************)
Valid == [valid |-> TRUE, error |-> ""]
Invalid(reason) == [valid |-> FALSE, error |-> reason]
NotValidated == [valid |-> FALSE, error |-> "<not run>"]

\* Mutant: the token is compared as the header carries it, without trim()
validateTokenUntrimmed(cat, functionName, authHeader) ==
    LET storedFunction == getFunction(cat, functionName)
        token == Substring(authHeader, BearerLen)
    IN  IF storedFunction = NoFn THEN Invalid("Function not found")
        ELSE IF authHeader = NoHeader \/ authHeader = <<>>
             THEN Invalid("API token required")
        ELSE IF ~StartsWith(authHeader, Bearer)
             THEN Invalid("Invalid authorization format")
        ELSE IF token = <<>> THEN Invalid("Token is missing")
        ELSE IF token # storedFunction.token THEN Invalid("Invalid API token")
        ELSE Valid

validateToken(cat, functionName, authHeader) ==
    LET storedFunction == getFunction(cat, functionName)
        token == Trim(Substring(authHeader, BearerLen))
    IN  IF storedFunction = NoFn THEN Invalid("Function not found")
        ELSE IF authHeader = NoHeader \/ authHeader = <<>>
             THEN Invalid("API token required")
        ELSE IF ~StartsWith(authHeader, Bearer)
             THEN Invalid("Invalid authorization format")
        ELSE IF token = <<>> THEN Invalid("Token is missing")
        ELSE IF token # storedFunction.token THEN Invalid("Invalid API token")
        ELSE Valid

(***************************************************************************)
(* Safety Validator (validateCodeSafety)                                   *)
(***************************************************************************)
Safe == [safe |-> TRUE, reason |-> ""]
Unsafe(pattern) == [safe |-> FALSE, reason |-> pattern]
NotScanned == [safe |-> FALSE, reason |-> "<not run>"]

RECURSIVE ScanFrom(_, _)
ScanFrom(code, k) ==
    IF k > Len(dangerousPatterns) THEN Safe
    ELSE IF PatternTest(dangerousPatterns[k], code) THEN Unsafe(dangerousPatterns[k])
    ELSE ScanFrom(code, k + 1)

validateCodeSafety(code) == ScanFrom(code, 1)

(***************************************************************************)
(* Input Schema Builder (createInputSchema) and zod's object parse         *)
(***************************************************************************)
ZodType(type) ==
    IF type \in {"string", "number", "boolean", "object", "array"} THEN type
    ELSE "unknown"

\* shape[input.name] = zodType, or zodType.optional() when required === false
\* shape is an object: a name assigned twice keeps its first position and its
\* last value
createInputSchema(cat, functionName) ==
    LET inputs == getFunction(cat, functionName).description.inputs
        first(j) == \A i \in 1..(j - 1) : inputs[i].name # inputs[j].name
        last(j) == CHOOSE i \in j..Len(inputs) :
                       /\ inputs[i].name = inputs[j].name
                       /\ \A k \in (i + 1)..Len(inputs) : inputs[k].name # inputs[j].name
        names == SelectSeq([j \in 1..Len(inputs) |-> j], LAMBDA j : first(j))
    IN  [m \in 1..Len(names) |->
            [key |-> inputs[names[m]].name,
             type |-> ZodType(inputs[last(names[m])].type),
             optional |-> (inputs[last(names[m])].required = FALSE)]]

TypeAccepts(type, v) == type = "unknown" \/ v.t = type

FieldOk(field, body) ==
    LET v == Get(body, field.key)
    IN  IF v = Undefined THEN field.optional ELSE TypeAccepts(field.type, v)

\* The keys of the shape that fail, in shape order
RECURSIVE Issues(_, _)
Issues(schema, body) ==
    IF schema = <<>> THEN <<>>
    ELSE (IF FieldOk(Head(schema), body) THEN <<>> ELSE <<Head(schema).key>>)
         \o Issues(Tail(schema), body)

\* Mutant: the object schema lets undeclared keys through (passthrough)
StripPassthrough(schema, body) == body

\* The parsed object: the declared keys that are present, in shape order
RECURSIVE Strip(_, _)
Strip(schema, body) ==
    IF schema = <<>> THEN <<>>
    ELSE (IF HasKey(body, Head(schema).key)
          THEN <<Pair(Head(schema).key, Get(body, Head(schema).key))>>
          ELSE <<>>)
         \o Strip(Tail(schema), body)

NotParsed == [ok |-> FALSE, issues |-> <<"<not run>">>, data |-> <<>>]

SchemaParse(schema, body) ==
    LET issues == Issues(schema, body)
    IN  IF issues = <<>>
        THEN [ok |-> TRUE, issues |-> <<>>, data |-> Strip(schema, body)]
        ELSE [ok |-> FALSE, issues |-> issues, data |-> <<>>]

(***************************************************************************)
(* Source cleaning of the executor (executeInSandbox, cleanedCode): six    *)
(* regular-expression replacements over the characters of the code         *)
(***************************************************************************)
Digits == {"0", "1", "2", "3", "4", "5", "6", "7", "8", "9"}
Letters == {UpperCase[j] : j \in 1..Len(UpperCase)} \cup {LowerCase[j] : j \in 1..Len(LowerCase)}

\* The character classes of the expressions; any other atom is the character itself
ClassHas(cls, c) ==
    CASE cls = "\\w"     -> c \in Letters \cup Digits \cup {"_"}
      [] cls = "\\s"     -> IsWhite(c)
      [] cls = "[^)]"    -> c # ")"
      [] cls = "[^=]"    -> c # "="
      [] cls = "[a-zA-Z_$]" -> c \in Letters \cup {"_", "$"}
      [] cls = "[a-zA-Z0-9_$<>[\\],\\s|&]" ->
             c \in Letters \cup Digits \cup {"_", "$", "<", ">", "[", "]", ",", "|", "&"}
             \/ IsWhite(c)
      [] OTHER -> c = cls

One(cls) == [cls |-> cls, q |-> "1"]
Star(cls) == [cls |-> cls, q |-> "*"]
Plus(cls) == [cls |-> cls, q |-> "+"]
Bol == [cls |-> "^", q |-> "1"]
Lit(word) == [j \in 1..Len(word) |-> One(word[j])]

NoMatch == <<-1>>

\* The number of characters of the class that stand at pos
Run(cls, text, pos) ==
    CHOOSE n \in 0..(Len(text) - pos + 1) :
        /\ \A j \in 0..(n - 1) : ClassHas(cls, text[pos + j])
        /\ pos + n <= Len(text) => ~ClassHas(cls, text[pos + n])

\* The atoms p[k..] matched at pos, a greedy quantifier taking the longest run
\* that lets the rest match: the position where each atom's match ends, or NoMatch
RECURSIVE MatchFrom(_, _, _, _)
MatchFrom(p, k, text, pos) ==
    IF k > Len(p) THEN <<>>
    ELSE IF p[k].cls = "^"
         THEN IF pos = 1 \/ text[pos - 1] = "\n"
              THEN (LET rest == MatchFrom(p, k + 1, text, pos)
                    IN  IF rest = NoMatch THEN NoMatch ELSE <<pos - 1>> \o rest)
              ELSE NoMatch
    ELSE IF p[k].q = "1"
         THEN IF pos <= Len(text) /\ ClassHas(p[k].cls, text[pos])
              THEN (LET rest == MatchFrom(p, k + 1, text, pos + 1)
                    IN  IF rest = NoMatch THEN NoMatch ELSE <<pos>> \o rest)
              ELSE NoMatch
    ELSE LET least == IF p[k].q = "+" THEN 1 ELSE 0
             fits == {n \in least..Run(p[k].cls, text, pos) :
                         MatchFrom(p, k + 1, text, pos + n) # NoMatch}
             n == CHOOSE m \in fits : \A o \in fits : o <= m
         IN  IF fits = {} THEN NoMatch
             ELSE <<pos + n - 1>> \o MatchFrom(p, k + 1, text, pos + n)

\* The expressions, each a list of alternatives
Keywords(pass) ==
    IF pass = "exportDeclaration"
    THEN <<<<"f", "u", "n", "c", "t", "i", "o", "n">>, <<"c", "o", "n", "s", "t">>,
           <<"l", "e", "t">>, <<"v", "a", "r">>>>
    ELSE <<<<"c", "o", "n", "s", "t">>, <<"l", "e", "t">>, <<"v", "a", "r">>>>
Export == <<"e", "x", "p", "o", "r", "t">>
Alternatives(pass) ==
    CASE pass = "optionalMark" ->
             <<<<Plus("\\w"), Star("\\s"), One("?"), Star("\\s"), One(":")>>>>
      [] pass = "exportDeclaration" ->
             [a \in 1..4 |-> <<Bol>> \o Lit(Export) \o <<Plus("\\s")>>
                             \o Lit(Keywords(pass)[a]) \o <<Plus("\\s")>>]
      [] pass = "exportList" ->
             <<<<Bol>> \o Lit(Export) \o <<Star("\\s"), One("{")>>>>
      [] pass = "returnType" ->
             <<<<One(")"), Star("\\s"), One(":"), Star("\\s"), One("[a-zA-Z_$]"),
                 Star("[a-zA-Z0-9_$<>[\\],\\s|&]"), Star("\\s"), One("{")>>>>
      [] pass = "functionParameters" ->
             <<Lit(<<"f", "u", "n", "c", "t", "i", "o", "n">>)
               \o <<Plus("\\s"), Plus("\\w"), Star("\\s"), One("("), Plus("[^)]"), One(")")>>>>
      [] pass = "arrowParameters" ->
             <<<<One("("), Plus("[^)]"), One(")"), Star("\\s"), One(":")>>>>
      [] pass = "variableAnnotation" ->
             [a \in 1..3 |-> Lit(Keywords(pass)[a])
                             \o <<Plus("\\s"), Plus("\\w"), Star("\\s"), One(":"),
                                  Star("\\s"), Plus("[^=]"), One("=")>>]

\* The first alternative that matches at pos: <<a, ends>>, or <<0, NoMatch>>
RECURSIVE FirstAlternative(_, _, _, _)
FirstAlternative(alts, a, text, pos) ==
    IF a > Len(alts) THEN <<0, NoMatch>>
    ELSE LET ends == MatchFrom(alts[a], 1, text, pos)
         IN  IF ends = NoMatch THEN FirstAlternative(alts, a + 1, text, pos)
             ELSE <<a, ends>>

\* String.prototype.trim
RECURSIVE TrimStart(_)
TrimStart(s) == IF s # <<>> /\ IsWhite(Head(s)) THEN TrimStart(Tail(s)) ELSE s
RECURSIVE TrimEnd(_)
TrimEnd(s) ==
    IF s # <<>> /\ IsWhite(s[Len(s)]) THEN TrimEnd(SubSeq(s, 1, Len(s) - 1)) ELSE s
JsTrim(s) == TrimEnd(TrimStart(s))

\* s.indexOf(c), counted from 0; -1 when c is absent
IndexOf(s, c) ==
    IF \E j \in 1..Len(s) : s[j] = c
    THEN (CHOOSE j \in 1..Len(s) : s[j] = c /\ \A m \in 1..(j - 1) : s[m] # c) - 1
    ELSE -1

\* params.split(',')
RECURSIVE Split(_)
Split(s) ==
    LET at == IndexOf(s, ",")
    IN  IF at < 0 THEN <<s>>
        ELSE <<SubSeq(s, 1, at)>> \o Split(SubSeq(s, at + 2, Len(s)))

\* The name of one parameter: what stands before its first colon
ParamName(p) ==
    LET trimmed == JsTrim(p)
        colonIndex == IndexOf(trimmed, ":")
    IN  IF colonIndex > 0 THEN JsTrim(SubSeq(trimmed, 1, colonIndex)) ELSE trimmed

\* paramNames.join(', ')
RECURSIVE Join(_)
Join(names) ==
    IF names = <<>> THEN <<>>
    ELSE IF Len(names) = 1 THEN names[1]
    ELSE names[1] \o <<",", " ">> \o Join(Tail(names))
ParamNames(params) ==
    LET pieces == Split(params)
    IN  Join([j \in 1..Len(pieces) |-> ParamName(pieces[j])])

\* The replacement string of String.prototype.replace: $$ inserts a dollar sign,
\* $& the matched text, $` what stands before it and $' what stands after it
RECURSIVE Expand(_, _, _, _)
Expand(replacement, before, matched, after) ==
    IF replacement = <<>> THEN <<>>
    ELSE IF Len(replacement) >= 2 /\ replacement[1] = "$"
                                  /\ replacement[2] \in {"$", "&", "`", "'"}
         THEN (CASE replacement[2] = "$" -> <<"$">>
                 [] replacement[2] = "&" -> matched
                 [] replacement[2] = "`" -> before
                 [] replacement[2] = "'" -> after)
              \o Expand(SubSeq(replacement, 3, Len(replacement)), before, matched, after)
    ELSE <<Head(replacement)>> \o Expand(Tail(replacement), before, matched, after)

\* What takes the place of a match of alternative a that starts at pos
Replacement(pass, a, text, pos, ends) ==
    LET n == Len(ends)
        span(j) == SubSeq(text, (IF j = 1 THEN pos ELSE ends[j - 1] + 1), ends[j])
    IN  CASE pass = "optionalMark" -> span(1) \o <<":">>
          [] pass = "exportDeclaration" -> Keywords(pass)[a] \o <<" ">>
          [] pass = "exportList" -> <<"{">>
          [] pass = "returnType" -> <<")", " ", "{">>
          [] pass = "functionParameters" ->
                 \* match.replace(`(${params})`, `(${paramNames.join(', ')})`)
                 SubSeq(text, pos, ends[n - 3])
                 \o Expand(<<"(">> \o ParamNames(span(n - 1)) \o <<")">>,
                           SubSeq(text, pos, ends[n - 3]),
                           SubSeq(text, ends[n - 3] + 1, ends[n]), <<>>)
          [] pass = "arrowParameters" -> <<"(">> \o ParamNames(span(2)) \o <<")">>
          [] pass = "variableAnnotation" ->
                 Keywords(pass)[a] \o <<" ">> \o span(n - 5) \o <<" ", "=">>

\* text.replaceAll(expression, replacement), from pos on: the leftmost match
\* is replaced and the search goes on behind it
RECURSIVE ReplaceAll(_, _, _)
ReplaceAll(pass, text, pos) ==
    LET starts == {s \in pos..Len(text) :
                      FirstAlternative(Alternatives(pass), 1, text, s)[2] # NoMatch}
        s == CHOOSE t \in starts : \A u \in starts : t <= u
        m == FirstAlternative(Alternatives(pass), 1, text, s)
    IN  IF starts = {} THEN SubSeq(text, pos, Len(text))
        ELSE SubSeq(text, pos, s - 1) \o Replacement(pass, m[1], text, s, m[2])
             \o ReplaceAll(pass, text, m[2][Len(m[2])] + 1)

Passes == <<"optionalMark", "exportDeclaration", "exportList", "returnType",
            "functionParameters", "arrowParameters", "variableAnnotation">>
RECURSIVE ApplyPasses(_, _)
ApplyPasses(text, k) ==
    IF k > Len(Passes) THEN text
    ELSE ApplyPasses(ReplaceAll(Passes[k], text, 1), k + 1)

\* cleanedCode of executeInSandbox
cleanedCode(functionCode) == ApplyPasses(JsTrim(functionCode), 1)

(***************************************************************************)
(* Sandboxed Executor (executeInSandbox)                                   *)
(***************************************************************************)
NoValue == [ret |-> "none", args |-> <<>>]
Returned(ret, args) == [ret |-> ret, args |-> args]

Includes(message, fragment) == \E j \in 1..Len(message) : message[j] = fragment

\* The message of the error the body throws itself
ThrownMessage(code) ==
    CASE code.kind = "saysTimed" -> <<"Script execution timed out">>
      [] code.kind = "saysUndef" -> <<"quota", "is not defined">>
      [] OTHER -> <<"boom">>

\* What vm.run(executionCode) does: the wrapper declares the code, checks that
\* functionName is a function and calls it with args.<key> for each key of inputs.
VmRun(functionName, code, inputs, sandbox) ==
    LET inputNames == Keys(inputs)
        args == [j \in 1..Len(inputNames) |-> Get(inputs, inputNames[j])]
        b == IF code.kind = "stateful"
             THEN (IF sandbox = Pristine THEN "value" ELSE "undefined")
             ELSE Behaviour(code)
    IN  IF code.decl # functionName
        THEN [threw |-> TRUE, message |-> <<"Fonction non trouvée dans le code généré">>,
              value |-> NoValue, promise |-> "none", sandbox |-> sandbox]
        ELSE CASE b = "value" ->
                    [threw |-> FALSE, message |-> <<>>,
                     value |-> Returned("value", args), promise |-> "none", sandbox |-> sandbox]
               [] b = "undefined" ->
                    [threw |-> FALSE, message |-> <<>>,
                     value |-> Returned("undefined", <<>>), promise |-> "none", sandbox |-> sandbox]
               [] b = "loop" ->
                    [threw |-> TRUE, message |-> <<"Script execution timed out", "after 5000ms">>,
                     value |-> NoValue, promise |-> "none", sandbox |-> sandbox]
               [] b = "notDefined" ->
                    [threw |-> TRUE, message |-> <<"binding", "is not defined">>,
                     value |-> NoValue, promise |-> "none", sandbox |-> sandbox]
               [] b = "throw" ->
                    [threw |-> TRUE, message |-> ThrownMessage(code),
                     value |-> NoValue, promise |-> "none", sandbox |-> sandbox]
               [] OTHER ->
                    [threw |-> FALSE, message |-> <<>>,
                     value |-> Returned("promise", args), promise |-> b, sandbox |-> sandbox]

\* executeInSandbox: vm.run under the timeout, its errors sorted by their message
executeInSandbox(functionName, code, inputs, sandbox) ==
    LET r == [VmRun(functionName, code, inputs, sandbox) EXCEPT !.sandbox =
                 IF code.decl = functionName /\ code.kind = "stateful" THEN Marked
                 ELSE sandbox]
    IN  IF ~r.threw THEN r
        ELSE IF Includes(r.message, "Script execution timed out")
             THEN [r EXCEPT !.message = <<"a dépassé le temps limite">>]
        ELSE IF Includes(r.message, "is not defined")
             THEN [r EXCEPT !.message = <<"Accès non autorisé dans">> \o r.message]
        ELSE [r EXCEPT !.message = <<"Erreur d'exécution dans">> \o r.message]

(***************************************************************************)
(* Invocation requests: the locals of one run of a handler                 *)
(***************************************************************************)
Resp(code, error, details, result) ==
    [code |-> code, error |-> error, details |-> details, result |-> result]
NoResp == Resp(0, <<>>, <<>>, NoValue)

IdleInv ==
    [pc |-> "idle", handler |-> "none", functionName |-> "", auth |-> NoHeader,
     body |-> <<>>, tokenValidation |-> NotValidated, storedFunction |-> NoFn,
     safetyCheck |-> NotScanned, inputSchema |-> <<>>, parsed |-> NotParsed,
     ran |-> NoCode, cleaned |-> <<>>, sandbox |-> Pristine, promise |-> "none", waited |-> 0,
     status |-> "success", result |-> NoValue, errorMsg |-> <<>>,
     resp |-> NoResp, log |-> "none"]

\* finally { import('analytics-service').then(m => m.logExecution({...})) }
Finally(r) == [r EXCEPT !.pc = "done", !.log = "scheduled"]

\* catch (error): a ZodError answers 400, anything else 500 with its message
CatchZod(r, issues) ==
    Finally([r EXCEPT !.status = "error", !.errorMsg = <<"Validation error">>,
                      !.resp = Resp(400, <<"Validation error">>, issues, NoValue)])
CatchError(r, message) ==
    Finally([r EXCEPT !.status = "error", !.errorMsg = message,
                      !.resp = Resp(500, message, <<>>, NoValue)])

\* Mutant: the unauthorized reply leaves the handler without the finally block
Reply401Unlogged(r) ==
    [r EXCEPT !.pc = "done", !.status = "error", !.errorMsg = <<"Unauthorized">>,
              !.resp = Resp(401, <<"Unauthorized">>, <<r.tokenValidation.error>>, NoValue)]

\* if (!tokenValidation.valid) return reply.code(401)
Reply401(r) ==
    Finally([r EXCEPT !.status = "error", !.errorMsg = <<"Unauthorized">>,
                      !.resp = Resp(401, <<"Unauthorized">>,
                                    <<r.tokenValidation.error>>, NoValue)])

\* return { success: true, result }
ReplySuccess(r, value) ==
    Finally([r EXCEPT !.result = value, !.resp = Resp(200, <<>>, <<>>, value)])

(***************************************************************************)
(* The catch-all handler, POST /api/:functionName (index.ts)               *)
(***************************************************************************)
\* From the entry to the first await (the dynamic imports)
CatchAllEntry(r0, cat, functionName, authHeader, body) ==
    LET r1 == [r0 EXCEPT !.handler = "catchall", !.functionName = functionName,
                         !.auth = authHeader, !.body = body]
        r2 == [r1 EXCEPT !.tokenValidation = validateToken(cat, functionName, authHeader)]
    IN  IF functionName \in SystemRoutes
        THEN [r1 EXCEPT !.pc = "done",
                        !.resp = Resp(404, <<"Route non trouvée">>, <<>>, NoValue)]
        ELSE IF ~r2.tokenValidation.valid THEN Reply401(r2)
        ELSE [r2 EXCEPT !.pc = "importing"]

\* Mutant: the catch-all handler does not stop on an unsafe scan
CatchAllSafetyIgnored(r) == r

\* The safety check of the stored code: reply.code(400) 'Code non sécurisé'
CatchAllSafety(r) ==
    IF r.safetyCheck.safe THEN r
    ELSE Finally([r EXCEPT !.status = "error",
                           !.errorMsg = <<"Code non sécurisé", r.safetyCheck.reason>>,
                           !.resp = Resp(400, <<"Code non sécurisé">>,
                                         <<r.safetyCheck.reason>>, NoValue)])

\* executeInSandbox and the test `result instanceof Promise`
CatchAllExecute(r) ==
    LET x == executeInSandbox(r.functionName, r.storedFunction.code, r.parsed.data,
                              r.sandbox)
        r1 == [r EXCEPT !.ran = r.storedFunction.code, !.sandbox = x.sandbox]
    IN  IF x.threw THEN CatchError(r1, x.message)
        ELSE IF x.promise # "none"
             THEN [r1 EXCEPT !.pc = "awaiting", !.promise = x.promise, !.result = x.value]
        ELSE ReplySuccess(r1, x.value)

\* From the imports to the reply or to `await result`
CatchAllResume(r, cat) ==
    LET storedFunction == getFunction(cat, r.functionName)
        r1 == [r EXCEPT !.storedFunction = storedFunction]
        r2 == [r1 EXCEPT !.safetyCheck = validateCodeSafety(storedFunction.code)]
        r3 == CatchAllSafety(r2)
        inputSchema == createInputSchema(cat, r.functionName)
        r4 == [r2 EXCEPT !.inputSchema = inputSchema,
                         !.parsed = SchemaParse(inputSchema, r.body)]
    IN  IF storedFunction = NoFn
        THEN Finally([r1 EXCEPT !.resp = Resp(404, <<"Fonction non trouvée">>, <<>>, NoValue)])
        ELSE IF r3.pc = "done" THEN r3
        ELSE IF ~r4.parsed.ok THEN CatchZod(r4, r4.parsed.issues)
        ELSE CatchAllExecute(r4)

\* The awaited promise settles
CatchAllSettle(r) ==
    IF r.promise = "promiseFulfils"
    THEN ReplySuccess(r, Returned("value", r.result.args))
    ELSE CatchError(r, <<"boom">>)

(***************************************************************************)
(* The per-function handler (route-register.ts)                            *)
(***************************************************************************)
NoRoute == [registered |-> FALSE, inputSchema |-> <<>>]

\* registerFunctionRoute before the server listens: the schema is built once
registerFunctionRoute(cat, functionName) ==
    [registered |-> TRUE, inputSchema |-> createInputSchema(cat, functionName)]

Wrap(message) == <<"Erreur d'exécution">> \o message

\* executeGeneratedFunction, from its call to its return, throw or `await result`
executeGeneratedFunction(r, cat) ==
    LET storedFunction == getFunction(cat, r.functionName)
        r1 == [r EXCEPT !.storedFunction = storedFunction]
        r2 == [r1 EXCEPT !.safetyCheck = validateCodeSafety(storedFunction.code)]
        x  == executeInSandbox(r.functionName, storedFunction.code, r.parsed.data,
                               r.sandbox)
        r3 == [r2 EXCEPT !.ran = storedFunction.code, !.sandbox = x.sandbox]
    IN  IF storedFunction = NoFn THEN CatchError(r1, <<"Fonction non trouvée">>)
        ELSE IF ~r2.safetyCheck.safe
             THEN CatchError(r2, Wrap(<<"Code non sécurisé détecté", r2.safetyCheck.reason>>))
        ELSE IF x.threw THEN CatchError(r3, Wrap(x.message))
        ELSE IF x.promise # "none"
             THEN [r3 EXCEPT !.pc = "awaiting", !.promise = x.promise, !.result = x.value]
        ELSE ReplySuccess(r3, x.value)

\* routeHandler, from the entry to the reply or to the await
RouteEntry(r0, cat, route, functionName, authHeader, body) ==
    LET r1 == [r0 EXCEPT !.handler = "route", !.functionName = functionName,
                         !.auth = authHeader, !.body = body]
        r2 == [r1 EXCEPT !.tokenValidation = validateToken(cat, functionName, authHeader)]
        r3 == [r2 EXCEPT !.inputSchema = route.inputSchema,
                         !.parsed = SchemaParse(route.inputSchema, body)]
    IN  IF ~r2.tokenValidation.valid THEN Reply401(r2)
        ELSE IF ~r3.parsed.ok THEN CatchZod(r3, r3.parsed.issues)
        ELSE executeGeneratedFunction(r3, cat)

\* The awaited promise settles inside executeGeneratedFunction's try block
RouteSettle(r) ==
    IF r.promise = "promiseFulfils"
    THEN ReplySuccess(r, Returned("value", r.result.args))
    ELSE CatchError(r, Wrap(<<"boom">>))

(***************************************************************************)
(* Execution Telemetry Recorder (analytics-service.ts)                     *)
(***************************************************************************)
\* The entry logExecution builds from the handler's locals
LogEntry(r, call, clock) ==
    [id |-> clock, call |-> call, functionName |-> r.functionName, timestamp |-> clock,
     status |-> r.status, inputs |-> r.body,
     output |-> IF r.status = "success" THEN r.result ELSE NoValue,
     error |-> r.errorMsg]

\* Mutant: a full history refuses the new entry
logExecutionFull(history, log) ==
    IF Len(history) >= LogCap THEN history ELSE <<log>> \o history

\* logs.unshift(log); if (logs.length > 100) logs = logs.slice(0, 100)
logExecution(history, log) ==
    LET unshifted == <<log>> \o history
    IN  IF Len(unshifted) > LogCap THEN Slice(unshifted, 0, LogCap) ELSE unshifted

\* Mutant: the limit is taken from the oldest end
getLogsOldest(history, limit) == Slice(history, Len(history) - limit, Len(history))

\* getLogs(functionName, limit): logs.slice(0, limit)
getLogs(history, limit) == Slice(history, 0, limit)

\* Mutant: the handler waits for logExecution and its rejection reaches the catch block
RecorderRejectsUncaught(r) ==
    [r EXCEPT !.log = "failed", !.status = "error",
              !.resp = Resp(500, <<"Erreur lors du log analytics">>, <<>>, NoValue)]

\* logExecution rejects (mkdirSync or writeFileSync throws):
\* .catch(err => console.error('Erreur lors du log analytics:', err))
RecorderRejects(r) == [r EXCEPT !.log = "failed"]

\* The log file exists but JSON.parse throws: logs stays [] and the new entry is
\* written alone
logExecutionCorrupt(history, log) == logExecution(<<>>, log)

\* GET /api/logs/:functionName?limit=
NoAnalytics == [totalCalls |-> 0, successCount |-> 0, errorCount |-> 0, dailyStats |-> <<>>]
UTC == [before |-> 0, after |-> 0, at |-> 0]
NoReply == [op |-> "none", functionName |-> "", limit |-> 0, code |-> 0, logs |-> <<>>,
            analytics |-> NoAnalytics, clock |-> 0, zone |-> UTC]
LogsRoute(cat, history, functionName, limit) ==
    [NoReply EXCEPT
        !.op = "getLogs", !.functionName = functionName, !.limit = limit,
        !.code = IF functionExists(cat, functionName) THEN 200 ELSE 404,
        !.logs = IF functionExists(cat, functionName) THEN getLogs(history, limit) ELSE <<>>]

(***************************************************************************)
(* Aggregation (getFunctionAnalytics).  One tick of the clock is an hour;  *)
(* a timestamp is the UTC instant toISOString prints, and its date is its  *)
(* UTC day.  The time zone of the process is UTC+before until the instant  *)
(* `at` and UTC+after from then on.                                        *)
(***************************************************************************)
HoursPerDay == 24
WindowDays == 7

\* timestamp.split('T')[0] of an ISO string
IsoDate(t) == t \div HoursPerDay

\* The offset of local time at a UTC instant
OffsetAt(zone, t) == IF t < zone.at THEN zone.before ELSE zone.after

\* The UTC instant of a local wall-clock time; a repeated or skipped local
\* time is read with the offset before the transition
LocalToUtc(zone, wall) ==
    IF wall - zone.before < zone.at THEN wall - zone.before
    ELSE IF wall - zone.after >= zone.at THEN wall - zone.after
    ELSE wall - zone.before

\* date = new Date(); date.setDate(date.getDate() - i): the same local time
\* of day, i local calendar days earlier
DaysBack(zone, clock, i) ==
    LocalToUtc(zone, clock + OffsetAt(zone, clock) - i * HoursPerDay)

\* The keys of dailyMap in insertion order: a date set twice keeps its place
RECURSIVE MapKeys(_)
MapKeys(dates) ==
    IF dates = <<>> THEN <<>>
    ELSE LET rest == MapKeys(SubSeq(dates, 1, Len(dates) - 1))
             last == dates[Len(dates)]
         IN  IF \E j \in 1..Len(rest) : rest[j] = last THEN rest ELSE Append(rest, last)

getFunctionAnalytics(history, clock, zone) ==
    IF history = <<>>                \* no log file has been written
    THEN NoAnalytics
    ELSE LET successes == {j \in 1..Len(history) : history[j].status = "success"}
             dates == [k \in 1..WindowDays |->
                          IsoDate(DaysBack(zone, clock, WindowDays - k))]
             keys == MapKeys(dates)
             on(d) == {j \in 1..Len(history) : IsoDate(history[j].timestamp) = d}
         IN  [totalCalls |-> Len(history),
              successCount |-> Cardinality(successes),
              errorCount |-> Len(history) - Cardinality(successes),
              dailyStats |->
                 [k \in 1..Len(keys) |->
                     [date |-> keys[k], calls |-> Cardinality(on(keys[k])),
                      errors |-> Cardinality({j \in on(keys[k]) :
                                                 history[j].status = "error"})]]]

\* GET /api/analytics/:functionName
AnalyticsRoute(cat, history, functionName, clock, zone) ==
    [NoReply EXCEPT
        !.op = "analytics", !.functionName = functionName,
        !.clock = clock, !.zone = zone,
        !.code = IF functionExists(cat, functionName) THEN 200 ELSE 404,
        !.analytics = IF functionExists(cat, functionName)
                      THEN getFunctionAnalytics(history, clock, zone)
                      ELSE NoAnalytics]

(***************************************************************************)
(* Management requests (routes/functions.ts)                               *)
(***************************************************************************)
MResp(code, token) == [code |-> code, token |-> token]
IdleReq ==
    [pc |-> "idle", op |-> "none", functionName |-> "", validatedData |-> NoDesc,
     existingFunction |-> NoFn, generatedCode |-> NoCode, newCode |-> NoCode,
     resp |-> MResp(0, NoToken)]

GenerationFailed == [decl |-> "", kind |-> "<generation failed>"]
Done(q, code, token) == [q EXCEPT !.pc = "done", !.resp = MResp(code, token)]

\* POST /api/functions, up to `await generateFunction(validatedData)`
CreateBegin(q0, cat, data) ==
    LET q == [q0 EXCEPT !.op = "create", !.functionName = data.name, !.validatedData = data]
    IN  IF functionExists(cat, data.name) THEN Done(q, 409, NoToken)
        ELSE [q EXCEPT !.pc = "generating"]

\* The record the create handler stores
CreatedRecord(data, generatedCode, apiToken, clock) ==
    [name |-> data.name, code |-> generatedCode, token |-> apiToken, createdAt |-> clock,
     description |->
        [data EXCEPT !.documentation =
            IF data.documentation # NoDoc THEN data.documentation
            ELSE generateDocumentation(data.name, data, apiToken)]]

\* POST /api/functions, from the generated code to the reply: <<request, catalog, issued>>
CreateFinish(q0, cat, generatedCode, n, clock) ==
    LET q == [q0 EXCEPT !.generatedCode = generatedCode]
        q1 == [q EXCEPT !.newCode = generatedCode]
        apiToken == generateApiToken(n + 1)
    IN  IF generatedCode = GenerationFailed THEN <<Done(q, 500, NoToken), cat, n>>
        ELSE IF ~validateCodeSafety(generatedCode).safe THEN <<Done(q1, 400, NoToken), cat, n>>
        ELSE <<Done(q1, 201, apiToken),
               saveFunction(cat, CreatedRecord(q.validatedData, generatedCode, apiToken, clock)),
               n + 1>>

\* hasChanges of the update handler
hasChanges(data, oldDesc) ==
    \/ data.name # oldDesc.name
    \/ data.logic # oldDesc.logic
    \/ data.inputs # oldDesc.inputs
    \/ data.output # oldDesc.output

\* Mutant: the update issues a token as the create handler does
UpdatedRecordNewToken(data, existingFunction, newCode) ==
    [name |-> data.name, code |-> newCode,
     token |-> generateApiToken(Len(existingFunction.token) + 1),
     createdAt |-> existingFunction.createdAt,
     description |-> [data EXCEPT !.documentation = NoDoc]]

\* The record the update handler stores
UpdatedRecord(data, existingFunction, newCode) ==
    [name |-> data.name, code |-> newCode, token |-> existingFunction.token,
     createdAt |-> existingFunction.createdAt,
     description |->
        [data EXCEPT !.documentation =
            IF hasChanges(data, existingFunction.description)
            THEN generateDocumentation(data.name, data, existingFunction.token)
            ELSE IF data.documentation # NoDoc THEN data.documentation
            ELSE existingFunction.description.documentation]]

\* PUT /api/functions/:functionName after the code is known: <<request, catalog>>
UpdateStore(q, cat) ==
    LET data == q.validatedData
        renamed == data.name # q.functionName
    IN  IF renamed /\ ~functionExists(cat, q.functionName)
        THEN <<Done(q, 500, NoToken), cat>>      \* deleteFunction throws
        ELSE <<Done(q, 200, q.existingFunction.token),
               saveFunction(IF renamed THEN deleteFunction(cat, q.functionName) ELSE cat,
                            UpdatedRecord(data, q.existingFunction, q.newCode))>>

\* Mutant: a new documentation text also sends the update to the generator
NeedsGenerationOnDocumentation(q) ==
    \/ q.validatedData.name # q.functionName
    \/ q.validatedData.logic # q.existingFunction.description.logic
    \/ q.validatedData.documentation # q.existingFunction.description.documentation

\* if (name !== functionName || logic !== existing.description.logic) regenerate
NeedsGeneration(q) ==
    \/ q.validatedData.name # q.functionName
    \/ q.validatedData.logic # q.existingFunction.description.logic

\* PUT /api/functions/:functionName, up to the await or, with no await, to the reply
UpdateBegin(q0, cat, functionName, data) ==
    LET existingFunction == getFunction(cat, functionName)
        q == [q0 EXCEPT !.op = "update", !.functionName = functionName,
                        !.validatedData = data, !.existingFunction = existingFunction,
                        !.newCode = existingFunction.code]
    IN  IF existingFunction = NoFn THEN <<Done(q, 404, NoToken), cat>>
        ELSE IF data.name # functionName /\ functionExists(cat, data.name)
             THEN <<Done(q, 409, NoToken), cat>>
        ELSE IF NeedsGeneration(q) THEN <<[q EXCEPT !.pc = "generating"], cat>>
        ELSE UpdateStore(q, cat)

\* Mutant: a renaming update deletes the old record before it scans the new code
UpdateFinishDeletesFirst(q0, cat, generatedCode) ==
    LET q == [q0 EXCEPT !.generatedCode = generatedCode, !.newCode = generatedCode]
        cat1 == IF q.validatedData.name # q.functionName
                THEN deleteFunction(cat, q.functionName) ELSE cat
    IN  IF generatedCode = GenerationFailed THEN <<Done(q0, 500, NoToken), cat>>
        ELSE IF ~validateCodeSafety(generatedCode).safe THEN <<Done(q, 400, NoToken), cat1>>
        ELSE UpdateStore(q, cat)

\* PUT /api/functions/:functionName, from the generated code to the reply
UpdateFinish(q0, cat, generatedCode) ==
    LET q == [q0 EXCEPT !.generatedCode = generatedCode]
        q1 == [q EXCEPT !.newCode = generatedCode]
    IN  IF generatedCode = GenerationFailed THEN <<Done(q, 500, NoToken), cat>>
        ELSE IF ~validateCodeSafety(generatedCode).safe THEN <<Done(q1, 400, NoToken), cat>>
        ELSE UpdateStore(q1, cat)

\* DELETE /api/functions/:functionName
DeleteHandler(q0, cat, functionName) ==
    LET q == [q0 EXCEPT !.op = "delete", !.functionName = functionName]
    IN  IF ~functionExists(cat, functionName) THEN <<Done(q, 404, NoToken), cat>>
        ELSE <<Done(q, 200, NoToken), deleteFunction(cat, functionName)>>

(***************************************************************************)
(* Inputs of the model                                                     *)
(***************************************************************************)
Logics == {"L1", "L2"}
Outputs == {"number"}
Documentations == {NoDoc, CallerDoc}
RequestBodies ==
    {Description(n, c, l, o, d) :
        n \in Names, c \in Contracts, l \in Logics, o \in Outputs, d \in Documentations}

\* What the code generator may answer for a function name
GeneratedKinds == {"double", "process"}
GeneratorAnswers(name) ==
    {Snippet(name, k) : k \in GeneratedKinds} \cup {GenerationFailed}

\* The bodies of the functions found in storage at startup
StartKinds == BodyKinds

\* The authorization headers a caller sends: none, or a token issued so far
SentHeaders(n) == {NoHeader} \cup {Bearer \o generateApiToken(k) : k \in 1..n}

\* A record as the create handler stored it before the server started
StartRecord(name, kind, k) ==
    CreatedRecord(Description(name, ContractN, "L1", "number", NoDoc),
                  Snippet(name, kind), generateApiToken(k), 0)

\* A history of n entries written before the server started, newest first
StartHistory(name, n) ==
    [j \in 1..n |->
        [id |-> 0 - j, call |-> 0, functionName |-> name, timestamp |-> 0 - j,
         status |-> "success", inputs |-> BodyOk,
         output |-> Returned("value", <<NumV>>), error |-> <<>>]]

StartCatalogs ==
    {[n \in Names |-> IF n = "f" THEN rf ELSE rl] :
        rf \in {NoFn} \cup {StartRecord("f", k, 1) : k \in StartKinds},
        rl \in {NoFn, StartRecord("logs", "double", 2)}}

(***************************************************************************)
(* The state machine                                                       *)
(***************************************************************************)
\* buildApp: the stored functions are registered as routes, then the server listens
Init ==
    /\ catalog \in StartCatalogs
    /\ routes = [n \in Names |->
                    IF functionExists(catalog, n) THEN registerFunctionRoute(catalog, n)
                    ELSE NoRoute]
    /\ inv = [i \in Slots |-> IdleInv]
    /\ req = [q \in ReqSlots |-> IdleReq]
    /\ logs = [n \in Names |-> <<>>]
    /\ prevSize = [n \in Names |-> 0]
    /\ now = 0
    /\ issued = 2
    /\ reply = NoReply
    /\ builtins = Pristine

\* Requests take the slots in order
NextFree(slots, k) ==
    IF k = 1 THEN slots[k].pc = "idle"
    ELSE slots[k].pc = "idle" /\ slots[k - 1].pc # "idle"

\* A request for POST /api/<name> arrives; Fastify prefers the static route
\* The code that executeInSandbox ran in this step was cleaned first
Cleaning(r) ==
    [r EXCEPT !.cleaned = IF r.ran.kind = "text" THEN cleanedCode(r.ran.text) ELSE <<>>]

Invoke(i, functionName, authHeader, body) ==
    /\ NextFree(inv, i)
    /\ LET r == [inv[i] EXCEPT !.sandbox = builtins]
       IN  inv' = [inv EXCEPT ![i] = Cleaning(
                IF routes[functionName].registered
                THEN RouteEntry(r, catalog, routes[functionName],
                                functionName, authHeader, body)
                ELSE CatchAllEntry(r, catalog, functionName, authHeader, body))]
    /\ builtins' = inv'[i].sandbox
    /\ UNCHANGED <<catalog, routes, req, logs, prevSize, now, issued, reply>>

\* The dynamic imports of the catch-all handler resolve
Resume(i) ==
    /\ inv[i].pc = "importing"
    /\ inv' = [inv EXCEPT ![i] =
                Cleaning(CatchAllResume([inv[i] EXCEPT !.sandbox = builtins], catalog))]
    /\ builtins' = inv'[i].sandbox
    /\ UNCHANGED <<catalog, routes, req, logs, prevSize, now, issued, reply>>

\* The promise returned by the sandboxed function settles
Settle(i) ==
    /\ inv[i].pc = "awaiting"
    /\ inv[i].promise \in {"promiseFulfils", "promiseRejects"}
    /\ inv' = [inv EXCEPT ![i] =
                IF inv[i].handler = "route" THEN RouteSettle(inv[i])
                ELSE CatchAllSettle(inv[i])]
    /\ UNCHANGED <<catalog, routes, req, logs, prevSize, now, issued, reply, builtins>>

\* SANDBOX_TIMEOUT ms pass while the handler awaits the promise
TimeLimitPasses(i) ==
    /\ inv[i].pc = "awaiting"
    /\ inv[i].waited < SANDBOX_TIMEOUT
    /\ inv' = [inv EXCEPT ![i].waited = inv[i].waited + SANDBOX_TIMEOUT]
    /\ UNCHANGED <<catalog, routes, req, logs, prevSize, now, issued, reply, builtins>>

\* The scheduled logExecution call runs
WriteLog(i) ==
    /\ inv[i].log = "scheduled"
    /\ logs' = [logs EXCEPT ![inv[i].functionName] =
                    logExecution(logs[inv[i].functionName], LogEntry(inv[i], i, now + 1))]
    /\ now' = now + 1
    /\ inv' = [inv EXCEPT ![i].log = "written"]
    /\ UNCHANGED <<catalog, routes, req, prevSize, issued, reply, builtins>>

CreateRequest(q, data) ==
    /\ NextFree(req, q)
    /\ req' = [req EXCEPT ![q] = CreateBegin(req[q], catalog, data)]
    /\ UNCHANGED <<catalog, routes, inv, logs, prevSize, now, issued, reply, builtins>>

CreateGenerated(q, generatedCode) ==
    /\ req[q].pc = "generating"
    /\ req[q].op = "create"
    /\ LET out == CreateFinish(req[q], catalog, generatedCode, issued, now)
       IN  /\ req' = [req EXCEPT ![q] = out[1]]
           /\ catalog' = out[2]
           /\ issued' = out[3]
    /\ UNCHANGED <<routes, inv, logs, prevSize, now, reply, builtins>>

UpdateRequest(q, functionName, data) ==
    /\ NextFree(req, q)
    /\ LET out == UpdateBegin(req[q], catalog, functionName, data)
       IN  /\ req' = [req EXCEPT ![q] = out[1]]
           /\ catalog' = out[2]
    /\ UNCHANGED <<routes, inv, logs, prevSize, now, issued, reply, builtins>>

UpdateGenerated(q, generatedCode) ==
    /\ req[q].pc = "generating"
    /\ req[q].op = "update"
    /\ LET out == UpdateFinish(req[q], catalog, generatedCode)
       IN  /\ req' = [req EXCEPT ![q] = out[1]]
           /\ catalog' = out[2]
    /\ UNCHANGED <<routes, inv, logs, prevSize, now, issued, reply, builtins>>

DeleteRequest(q, functionName) ==
    /\ NextFree(req, q)
    /\ LET out == DeleteHandler(req[q], catalog, functionName)
       IN  /\ req' = [req EXCEPT ![q] = out[1]]
           /\ catalog' = out[2]
    /\ UNCHANGED <<routes, inv, logs, prevSize, now, issued, reply, builtins>>

\* The stored code is changed by other means than the management requests
\* (the storage file is read anew by every getFunction)
CodeMutated(functionName, code) ==
    /\ functionExists(catalog, functionName)
    /\ catalog[functionName].code # code
    /\ catalog' = [catalog EXCEPT ![functionName].code = code]
    /\ UNCHANGED <<routes, inv, req, logs, prevSize, now, issued, reply, builtins>>

\* GET /api/functions: listFunctions loads the catalog
ListRequest ==
    /\ LET out == loadFunctions(catalog, issued)
       IN  /\ catalog' = out[1]
           /\ issued' = out[2]
    /\ UNCHANGED <<routes, inv, req, logs, prevSize, now, reply, builtins>>

ReadAnalytics(functionName, zone) ==
    /\ reply' = AnalyticsRoute(catalog, logs[functionName], functionName, now, zone)
    /\ reply' # reply
    /\ UNCHANGED <<catalog, routes, inv, req, logs, prevSize, now, issued, builtins>>

ReadLogs(functionName, limit) ==
    /\ reply' = LogsRoute(catalog, logs[functionName], functionName, limit)
    /\ reply' # reply
    /\ UNCHANGED <<catalog, routes, inv, req, logs, prevSize, now, issued, builtins>>

Invocation(S) ==
    \E i \in S :
        \/ \E n \in Names, h \in SentHeaders(issued), b \in Bodies : Invoke(i, n, h, b)
        \/ Resume(i)
        \/ Settle(i)
        \/ TimeLimitPasses(i)
        \/ WriteLog(i)

Creating(S) ==
    \E q \in S :
        \/ \E d \in RequestBodies : CreateRequest(q, d)
        \/ \E c \in GeneratorAnswers(req[q].validatedData.name) : CreateGenerated(q, c)

Updating(S) ==
    \E q \in S :
        \/ \E n \in Names, d \in RequestBodies : UpdateRequest(q, n, d)
        \/ \E c \in GeneratorAnswers(req[q].validatedData.name) : UpdateGenerated(q, c)

Deleting(S) == \E q \in S, n \in Names : DeleteRequest(q, n)

Management == Creating(Reqs) \/ Updating(Reqs) \/ Deleting(Reqs)

Tampering == \E n \in Names : CodeMutated(n, Snippet(n, "process"))

Next == Invocation(Calls) \/ Management \/ Tampering

Spec == Init /\ [][Next]_vars

(***************************************************************************)
(* The outcome of an invocation as its caller sees it: the status code and *)
(* the error label of the reply; among the 500 replies, the executor's     *)
(* failure classes by the message executeInSandbox gave them.              *)
(***************************************************************************)
Outcome(resp) ==
    CASE resp.code = 200 -> "Success"
      [] resp.code = 401 -> "Unauthorized"
      [] resp.code = 404 -> "NotFound"
      [] resp.code = 400 /\ resp.error = <<"Validation error">> -> "ValidationError"
      [] resp.code = 400 /\ resp.error = <<"Code non sécurisé">> -> "UnsafeCode"
      [] resp.code = 500 /\ Includes(resp.error, "a dépassé le temps limite") -> "ExecutionTimeout"
      [] resp.code = 500 /\ Includes(resp.error, "Accès non autorisé dans") -> "UnauthorizedAccess"
      [] resp.code = 500 -> "ExecutionError"
      [] OTHER -> "None"

Finished(i) == inv[i].pc = "done"
Executed(i) == inv[i].ran # NoCode

(***************************************************************************)
(* C1: in every invocation, through either handler, executeInSandbox is    *)
(* reached only if in that invocation validateToken returned valid, the    *)
(* payload passed the input schema the handler built from the contract and *)
(* validateCodeSafety returned safe for the code that is run.              *)
(***************************************************************************)
C1_ExecutionOnlyAfterChecks ==
    \A i \in Slots :
        Executed(i) =>
            /\ inv[i].tokenValidation = Valid
            /\ inv[i].parsed.ok
            /\ inv[i].parsed = SchemaParse(inv[i].inputSchema, inv[i].body)
            /\ inv[i].safetyCheck = Safe
            /\ validateCodeSafety(inv[i].ran) = Safe
            /\ inv[i].ran = inv[i].storedFunction.code

\* The catch-all handler has run the code of a function created or renamed after startup
C1_Witness ==
    \E i \in Slots :
        Executed(i) /\ inv[i].handler = "catchall" /\ Finished(i)
        /\ Outcome(inv[i].resp) = "Success"

(***************************************************************************)
(* C2: when the stored code matches a denylisted pattern at invocation     *)
(* time, an invocation with a correct token and a valid payload ends in    *)
(* the UnsafeCode outcome, not in an execution error or a timeout, and the *)
(* code is not run; in both handlers.                                      *)
(***************************************************************************)
UnsafeStoredCode(i) ==
    /\ Finished(i)
    /\ inv[i].tokenValidation = Valid
    /\ inv[i].storedFunction # NoFn
    /\ ~validateCodeSafety(inv[i].storedFunction.code).safe
    /\ LET read == [n \in Names |-> inv[i].storedFunction]
       IN  SchemaParse(createInputSchema(read, inv[i].functionName), inv[i].body).ok

C2_UnsafeStoredCodeIsUnsafeCode ==
    \A i \in Slots :
        UnsafeStoredCode(i) =>
            /\ Outcome(inv[i].resp) = "UnsafeCode"
            /\ ~Executed(i)

(***************************************************************************)
(* C3: when the code the generator returns for a create or an update       *)
(* matches a denylisted pattern, the request is rejected and its steps     *)
(* leave the catalog as it was: nothing added, replaced, renamed, deleted. *)
(***************************************************************************)
Rejects(q) ==
    /\ req[q].pc = "generating"
    /\ req'[q].pc = "done"
    /\ req'[q].generatedCode # GenerationFailed
    /\ ~validateCodeSafety(req'[q].generatedCode).safe

C3_UnsafeGenerationLeavesCatalog ==
    [][\A q \in Reqs :
        /\ (req[q].pc = "idle" /\ req'[q].pc = "generating") => catalog' = catalog
        /\ Rejects(q) => (req'[q].resp.code = 400 /\ catalog' = catalog)]_vars

\* A renaming update was rejected for its unsafe code and the old record is still stored
C3_Witness ==
    \E q \in Reqs :
        /\ req[q].pc = "done"
        /\ req[q].op = "update"
        /\ req[q].validatedData.name # req[q].functionName
        /\ ~validateCodeSafety(req[q].generatedCode).safe
        /\ req[q].resp.code = 400
        /\ functionExists(catalog, req[q].functionName)

(***************************************************************************)
(* C6: when the sandboxed function returns a promise, the time limit       *)
(* bounds the whole invocation: one whose promise is still unsettled when  *)
(* the limit expires ends in a timeout failure.                            *)
(***************************************************************************)
C6_TimeLimitBoundsPromise ==
    \A i \in Slots :
        (Finished(i) /\ inv[i].waited >= SANDBOX_TIMEOUT) => Outcome(inv[i].resp) = "ExecutionTimeout"

(***************************************************************************)
(* The event loop runs every continuation that is ready: the dynamic       *)
(* imports resolve, a promise that settles is resumed, time passes, and a  *)
(* scheduled logExecution call runs.                                       *)
(***************************************************************************)
Fairness ==
    \A i \in Calls :
        /\ WF_vars(Resume(i))
        /\ WF_vars(Settle(i))
        /\ WF_vars(TimeLimitPasses(i))
        /\ WF_vars(WriteLog(i))

FairSpec == Spec /\ Fairness

(***************************************************************************)
(* C5: an invocation whose function body loops forever is aborted at the   *)
(* time limit and ends in a timeout failure that differs from the other    *)
(* execution failures; hence every invocation that was received eventually *)
(* ends, in a response or in a failure.                                    *)
(***************************************************************************)
LoopTimesOut ==
    \A i \in Slots :
        (Executed(i) /\ Behaviour(inv[i].ran) = "loop") =>
            (Finished(i) /\ Outcome(inv[i].resp) = "ExecutionTimeout")

C5_EveryInvocationEnds ==
    /\ []LoopTimesOut
    /\ \A i \in Calls : (inv[i].pc # "idle") ~> Finished(i)

(***************************************************************************)
(* C9: every invocation that enters the pipeline of a handler eventually   *)
(* has exactly one telemetry entry recorded for it, whatever its outcome.  *)
(***************************************************************************)
EnteredPipeline(i) ==
    /\ inv[i].pc # "idle"
    /\ ~(inv[i].handler = "catchall" /\ inv[i].functionName \in SystemRoutes)

EntriesOf(i) ==
    {<<n, k>> \in Names \X (1..LogCap) : k <= Len(logs[n]) /\ logs[n][k].call = i}

C9_RecordingAlwaysRuns ==
    /\ [](\A i \in Calls : Cardinality(EntriesOf(i)) <= 1)
    /\ \A i \in Calls : EnteredPipeline(i) ~> (Cardinality(EntriesOf(i)) = 1)

(***************************************************************************)
(* Authentication probes: one caller sends every header of a bounded set   *)
(* to a server whose functions were stored before it started (their routes *)
(* are registered) or created since (they are served by the catch-all).    *)
(***************************************************************************)
HeaderChars == {"a", "A", " "}
RECURSIVE Tails(_)
Tails(n) ==
    IF n = 0 THEN {<<>>}
    ELSE Tails(n - 1) \cup {Append(t, c) : t \in {u \in Tails(n - 1) : Len(u) = n - 1},
                                            c \in HeaderChars}
Prefixes == {Bearer, <<"b", "e", "a", "r", "e", "r", " ">>, <<"B", "e", "a", "r", "e", "r">>}
ProbeHeaders == {NoHeader} \cup {p \o t : p \in Prefixes \cup {<<>>}, t \in Tails(MaxHeaderTail)}

RunningCatalogs ==
    {c \in StartCatalogs : c["f"] = NoFn \/ c["f"].code.kind \in {"double", "pOk", "process"}}

InitRunning ==
    /\ catalog \in RunningCatalogs
    /\ routes \in [Names -> {NoRoute} \cup {registerFunctionRoute(catalog, n) :
                                              n \in {m \in Names : functionExists(catalog, m)}}]
    /\ \A n \in Names : routes[n].registered =>
            /\ functionExists(catalog, n)
            /\ routes[n] = registerFunctionRoute(catalog, n)
    /\ inv = [i \in Slots |-> IdleInv]
    /\ req = [q \in ReqSlots |-> IdleReq]
    /\ logs = [n \in Names |-> <<>>]
    /\ prevSize = [n \in Names |-> 0]
    /\ now = 0
    /\ issued = 2
    /\ reply = NoReply
    /\ builtins = Pristine

Probe ==
    \/ \E n \in Names, h \in ProbeHeaders : Invoke(1, n, h, BodyOk)
    \/ Resume(1)
    \/ Settle(1)
    \/ TimeLimitPasses(1)
    \/ WriteLog(1)

SpecAuth == InitRunning /\ [][Probe]_vars

\* What follows the bearer prefix in the header
Remainder(authHeader) == Substring(authHeader, BearerLen)

\* The verdict of the claim, `rem` being what it compares with the stored token
Verdict(cat, functionName, authHeader, rem) ==
    IF getFunction(cat, functionName) = NoFn THEN Invalid("Function not found")
    ELSE IF authHeader = NoHeader THEN Invalid("API token required")
    ELSE IF ~StartsWith(authHeader, Bearer) THEN Invalid("Invalid authorization format")
    ELSE IF rem = <<>> THEN Invalid("Token is missing")
    ELSE IF rem # getFunction(cat, functionName).token
         THEN Invalid("Invalid API token")
    ELSE Valid

Authenticated(i) == inv[i].tokenValidation # NotValidated

RejectedUnauthorized(i) ==
    /\ Finished(i)
    /\ Outcome(inv[i].resp) = "Unauthorized"
    /\ inv[i].resp.details = <<inv[i].tokenValidation.error>>
    /\ inv[i].parsed = NotParsed
    /\ inv[i].safetyCheck = NotScanned
    /\ ~Executed(i)

(***************************************************************************)
(* C4 as stated: validateToken returns valid exactly when the function     *)
(* exists, the header is present, starts with the bearer prefix, and what  *)
(* follows the prefix is non-empty and equals the stored token; each       *)
(* failure has its own reason, tested in that order, and ends the          *)
(* invocation as Unauthorized before anything is validated or executed.    *)
(***************************************************************************)
C4_ValidIffExactRemainder ==
    \A i \in Slots :
        Authenticated(i) =>
            /\ inv[i].tokenValidation =
                   Verdict(catalog, inv[i].functionName, inv[i].auth, Remainder(inv[i].auth))
            /\ ~inv[i].tokenValidation.valid => RejectedUnauthorized(i)

TrimmedRemainder(authHeader) == Trim(Remainder(authHeader))

(***************************************************************************)
(* C4 as the code has it: the header must be present and non-empty, and    *)
(* what follows the prefix is compared after its surrounding whitespace is *)
(* removed: it must then be non-empty and equal to the stored token.       *)
(***************************************************************************)
C4_ValidIffTrimmedRemainder ==
    \A i \in Slots :
        Authenticated(i) =>
            /\ inv[i].tokenValidation =
                   Verdict(catalog, inv[i].functionName,
                           IF inv[i].auth = <<>> THEN NoHeader ELSE inv[i].auth,
                           TrimmedRemainder(inv[i].auth))
            /\ ~inv[i].tokenValidation.valid => RejectedUnauthorized(i)

\* A header whose token is padded with whitespace was accepted and the code was run
C4_Witness ==
    \E i \in Slots :
        /\ inv[i].tokenValidation = Valid
        /\ Remainder(inv[i].auth) # catalog[inv[i].functionName].token
        /\ Executed(i)

(***************************************************************************)
(* Telemetry: MaxInv invocations in flight at once on a running server     *)
(* whose histories are empty or one entry short of the cap, and a reader   *)
(* of the histories.                                                       *)
(***************************************************************************)
ReadLimits == {-1, 0, 1, DefaultLimit, LogCap, 10 * LogCap}
StartSizes == {0, LogCap - 1, LogCap}

InitTelemetry ==
    /\ catalog \in RunningCatalogs
    /\ routes \in [Names -> {NoRoute} \cup {registerFunctionRoute(catalog, n) :
                                              n \in {m \in Names : functionExists(catalog, m)}}]
    /\ \A n \in Names : routes[n].registered =>
            /\ functionExists(catalog, n)
            /\ routes[n] = registerFunctionRoute(catalog, n)
    /\ inv = [i \in Slots |-> IdleInv]
    /\ req = [q \in ReqSlots |-> IdleReq]
    /\ prevSize \in {[n \in Names |-> k] : k \in StartSizes}
    /\ logs = [n \in Names |-> StartHistory(n, prevSize[n])]
    /\ now = 0
    /\ issued = 2
    /\ reply = NoReply
    /\ builtins = Pristine

Reading == \E n \in Names, l \in ReadLimits : ReadLogs(n, l)

SpecTelemetry == InitTelemetry /\ [][Invocation(Invs)]_vars

SpecReading == InitTelemetry /\ [][Invocation(Calls) \/ Reading]_vars

\* The invocations whose entry logExecution has written to the history of n
Written(n) == {i \in Slots : inv[i].log = "written" /\ inv[i].functionName = n}
Recorded(n) == prevSize[n] + Cardinality(Written(n))
Places(n, i) == {k \in 1..Len(logs[n]) : logs[n][k].call = i}

(***************************************************************************)
(* C7: invocations of one function that are in flight together each add   *)
(* exactly one entry to its history, none is lost, overwritten or          *)
(* duplicated, and the history then holds min(100, previous size + N).     *)
(***************************************************************************)
C7_OneEntryPerInvocation ==
    \A n \in Names :
        LET new == Cardinality(Written(n))
        IN  /\ Len(logs[n]) = Min(LogCap, prevSize[n] + new)
            /\ \A i \in Written(n) :
                    /\ Cardinality(Places(n, i)) = 1
                    /\ \A k \in Places(n, i) :
                            logs[n][k] = LogEntry(inv[i], i, logs[n][k].timestamp)
            /\ \A i \in Slots \ Written(n) : Places(n, i) = {}
            /\ \A k \in (new + 1)..Len(logs[n]) :
                    logs[n][k] = StartHistory(n, prevSize[n])[k - new]

\* Two invocations of one function overlapped (the one received first was
\* recorded last) and their entries filled the history to the cap
C7_Witness ==
    \E n \in Names :
        /\ prevSize[n] = LogCap - 1
        /\ Cardinality(Written(n)) = MaxInv
        /\ Len(logs[n]) = LogCap
        /\ logs[n][1].call = 1
        /\ logs[n][2].call = 2

FailedBeforeExecution(i) ==
    /\ Finished(i)
    /\ EnteredPipeline(i)
    /\ Outcome(inv[i].resp) \in {"Unauthorized", "ValidationError"}

LogRejects(i) ==
    /\ inv[i].log = "scheduled"
    /\ inv' = [inv EXCEPT ![i] = RecorderRejects(inv[i])]
    /\ UNCHANGED <<catalog, routes, req, logs, prevSize, now, issued, reply, builtins>>

LogFileCorrupt(i) ==
    /\ inv[i].log = "scheduled"
    /\ logs[inv[i].functionName] # <<>>
    /\ logs' = [logs EXCEPT ![inv[i].functionName] =
                    logExecutionCorrupt(logs[inv[i].functionName],
                                        LogEntry(inv[i], i, now + 1))]
    /\ now' = now + 1
    /\ inv' = [inv EXCEPT ![i].log = "written"]
    /\ UNCHANGED <<catalog, routes, req, prevSize, issued, reply, builtins>>

RecorderFailure == \E i \in Invs : LogRejects(i) \/ LogFileCorrupt(i)

SpecRecorder == InitRunning /\ [][Invocation(Invs) \/ RecorderFailure]_vars

SpecUpdates == InitRunning /\ [][Updating(Mgmts) \/ ListRequest]_vars

\* Request q ends in this step as a successful update
UpdateSucceeds(q) ==
    /\ req[q].pc # "done"
    /\ req'[q].pc = "done"
    /\ req'[q].op = "update"
    /\ req'[q].resp.code = 200

(***************************************************************************)
(* C12: across updates, with or without a rename, and across loads of the  *)
(* catalog, a record keeps the token and createdAt it was created with: a  *)
(* successful update stores the token and createdAt of the record it       *)
(* updates, no token is issued, and no other step changes them.            *)
(***************************************************************************)
C12_TokenAndCreatedAtKept ==
    [][/\ issued' = issued
       /\ \A q \in ReqSlots :
            UpdateSucceeds(q) =>
                LET stored == catalog'[req'[q].validatedData.name]
                    before == IF functionExists(catalog, req'[q].functionName)
                              THEN catalog[req'[q].functionName]
                              ELSE req'[q].existingFunction
                IN  /\ stored.token = before.token
                    /\ stored.createdAt = before.createdAt
                    /\ req'[q].resp.token = before.token
       /\ \A n \in Names :
            (functionExists(catalog, n) /\ functionExists(catalog', n)
                /\ ~\E q \in ReqSlots : UpdateSucceeds(q) /\ req'[q].validatedData.name = n)
            => catalog'[n] = catalog[n]]_vars

\* A renamed function was updated again and still carries the token of "f"
C12_Witness ==
    /\ \A q \in Mgmts : req[q].pc = "done" /\ req[q].resp.code = 200
    /\ req[1].functionName = "f" /\ req[1].validatedData.name = "logs"
    /\ req[2].functionName = "logs"
    /\ req[2].generatedCode # NoCode
    /\ functionExists(catalog, "logs")
    /\ catalog["logs"].token = generateApiToken(1)

(***************************************************************************)
(* Creations: MaxMgmt creation requests, which may overlap.                *)
(***************************************************************************)
SpecCreates == InitRunning /\ [][Creating(Mgmts)]_vars

CreatedBy(q) ==
    req[q].pc = "done" /\ req[q].op = "create" /\ req[q].resp.code = 201

(***************************************************************************)
(* C13: for any interleaving of creation requests for one name at most one *)
(* returns success, and the token a successful creation returned is the    *)
(* stored token of that function (no function is deleted here).            *)
(***************************************************************************)
C13_CreatedOnce ==
    /\ \A p, q \in ReqSlots :
            (CreatedBy(p) /\ CreatedBy(q) /\ req[p].functionName = req[q].functionName)
            => p = q
    /\ \A q \in ReqSlots :
            CreatedBy(q) =>
                /\ functionExists(catalog, req[q].functionName)
                /\ catalog[req[q].functionName].token = req[q].resp.token

(***************************************************************************)
(* Contracts and payloads for the validator and the executor: every        *)
(* contract of at most two inputs the create handler accepts (input names  *)
(* are unconstrained strings, so a name may be declared twice), and every  *)
(* JSON object over the declared names and one undeclared name.            *)
(***************************************************************************)
InputTypes == {"string", "number", "boolean", "object", "array"}
JsonValues == {[t |-> x] : x \in InputTypes \cup {"null"}}
InputNames == {"n", "s"}
DeclaredInputs == {Input(k, t, r) : k \in InputNames, t \in InputTypes, r \in BOOLEAN}
DeclaredContracts ==
    {<<>>} \cup {<<a>> : a \in DeclaredInputs}
           \cup {<<a, b>> : a \in DeclaredInputs, b \in DeclaredInputs}
Payloads ==
    {<<>>, <<Pair("x", NumV)>>}
    \cup {<<Pair(k, v)>> : k \in InputNames, v \in JsonValues}
    \cup {<<Pair("n", v), Pair("s", w)>> : v \in JsonValues, w \in JsonValues}
    \cup {<<Pair("s", w), Pair("n", v)>> : v \in JsonValues, w \in JsonValues}
    \cup {<<Pair("x", NumV), Pair("n", v)>> : v \in JsonValues}

ContractRecord(c) ==
    CreatedRecord(Description("f", c, "L1", "number", NoDoc),
                  Snippet("f", "double"), generateApiToken(1), 0)

InitContracts ==
    /\ catalog \in {[n \in Names |-> IF n = "f" THEN ContractRecord(c) ELSE NoFn] :
                        c \in DeclaredContracts}
    /\ routes \in {[n \in Names |-> NoRoute],
                   [n \in Names |-> IF n = "f" THEN registerFunctionRoute(catalog, n)
                                    ELSE NoRoute]}
    /\ inv = [i \in Slots |-> IdleInv]
    /\ req = [q \in ReqSlots |-> IdleReq]
    /\ logs = [n \in Names |-> <<>>]
    /\ prevSize = [n \in Names |-> 0]
    /\ now = 0
    /\ issued = 1
    /\ reply = NoReply
    /\ builtins = Pristine

Validating ==
    \/ \E b \in Payloads : Invoke(1, "f", Bearer \o generateApiToken(1), b)
    \/ Resume(1)
    \/ WriteLog(1)

SpecContracts == InitContracts /\ [][Validating]_vars

\* The declared input d is satisfied by the payload
Satisfies(d, body) ==
    IF HasKey(body, d.name) THEN Get(body, d.name).t = d.type
    ELSE d.required = FALSE
Declared(i) == catalog[inv[i].functionName].description.inputs
Failing(i) ==
    {Declared(i)[j].name : j \in {k \in 1..Len(Declared(i)) :
                                      ~Satisfies(Declared(i)[k], inv[i].body)}}
Accepted(i) == Finished(i) /\ inv[i].tokenValidation = Valid /\ Executed(i)
Refused(i) ==
    /\ Finished(i)
    /\ Outcome(inv[i].resp) = "ValidationError"
    /\ ~Executed(i)

(***************************************************************************)
(* C14: the validator built from a contract accepts a payload exactly when *)
(* every declared input is satisfied (a required one present with its      *)
(* declared type, an optional one absent or of its declared type), with no *)
(* coercion; a rejected payload ends the invocation in ValidationError     *)
(* naming the failing fields, and a payload that omits only optional       *)
(* inputs is accepted.                                                     *)
(***************************************************************************)
C14_AcceptsIffDeclaredTypes ==
    \A i \in Calls :
        Finished(i) =>
            /\ Accepted(i) <=> Failing(i) = {}
            /\ Failing(i) # {} =>
                    /\ Refused(i)
                    /\ {inv[i].resp.details[j] : j \in 1..Len(inv[i].resp.details)}
                           = Failing(i)

(***************************************************************************)
(* C15: the function is called positionally in the declared input order:   *)
(* in every accepted invocation the k-th argument is the payload's value   *)
(* for the k-th declared input, whatever the key order of the payload, and *)
(* an omitted optional input is passed as undefined in its own position.   *)
(***************************************************************************)
\* What the k-th parameter of the called function is bound to: a parameter
\* beyond the arguments passed is undefined
Parameter(args, k) == IF k <= Len(args) THEN args[k] ELSE Undefined

\* The contract declares no input name twice
DistinctNames(inputs) ==
    \A a, b \in 1..Len(inputs) : a # b => inputs[a].name # inputs[b].name

\* Stated for the contracts with distinct input names, where the validator
\* enforces every declaration
C15_ArgumentsInDeclaredOrder ==
    \A i \in Calls :
        Finished(i) /\ Outcome(inv[i].resp) = "Success" /\ DistinctNames(Declared(i)) =>
            \A k \in 1..Len(Declared(i)) :
                Parameter(inv[i].result.args, k)
                    = Get(inv[i].body, Declared(i)[k].name)

(***************************************************************************)
(* C16: every successful update that changes the logic, the inputs, the    *)
(* output or the name stores a regenerated documentation and a code that   *)
(* the update has validated as safe, also when the update changes only the *)
(* contract and keeps the existing code.                                   *)
(***************************************************************************)
C16_ChangeRevalidatesStoredCode ==
    [][\A q \in ReqSlots :
          (UpdateSucceeds(q)
              /\ hasChanges(req'[q].validatedData, req'[q].existingFunction.description))
          => LET data == req'[q].validatedData
                 stored == catalog'[data.name]
             IN  /\ stored.description.documentation
                        = generateDocumentation(data.name, data,
                                                req'[q].existingFunction.token)
                 /\ validateCodeSafety(stored.code).safe]_vars

\* Request q is received in this step as an update of functionName that
\* repeats the stored name, logic, inputs and output
DocumentationOnlyUpdate(q) ==
    /\ req[q].pc = "idle"
    /\ req'[q].pc # "idle"
    /\ req'[q].op = "update"
    /\ functionExists(catalog, req'[q].functionName)
    /\ req'[q].validatedData.name = req'[q].functionName
    /\ ~hasChanges(req'[q].validatedData, catalog[req'[q].functionName].description)

(***************************************************************************)
(* C17: an update that changes only the documentation field is answered    *)
(* without a call of the code generator and leaves the stored code, token  *)
(* and createdAt as they were.                                             *)
(***************************************************************************)
C17_DocumentationOnlyKeepsCode ==
    [][\A q \in ReqSlots :
          DocumentationOnlyUpdate(q) =>
              LET n == req'[q].functionName
              IN  /\ req'[q].pc = "done"
                  /\ req'[q].resp.code = 200
                  /\ req'[q].generatedCode = NoCode
                  /\ catalog'[n].code = catalog[n].code
                  /\ catalog'[n].token = catalog[n].token
                  /\ catalog'[n].createdAt = catalog[n].createdAt]_vars

\* An update replaced the documentation by the caller's text, without generation
C17_Witness ==
    \E q \in Mgmts :
        /\ req[q].pc = "done" /\ req[q].op = "update" /\ req[q].resp.code = 200
        /\ req[q].generatedCode = NoCode
        /\ req[q].validatedData.documentation = CallerDoc
        /\ functionExists(catalog, req[q].functionName)
        /\ catalog[req[q].functionName].description.documentation = CallerDoc
        /\ catalog[req[q].functionName].code = req[q].existingFunction.code

(***************************************************************************)
(* Concurrent and successive invocations of stored functions, among them   *)
(* functions whose code sets a property on a built-in object it receives.  *)
(***************************************************************************)
SharingKinds == BodyKinds \cup {"stateful"}
InitSharing ==
    /\ catalog \in {[n \in Names |-> IF n = "f" THEN StartRecord("f", k, 1) ELSE rl] :
                        k \in SharingKinds,
                        rl \in {NoFn, StartRecord("logs", "stateful", 2)}}
    /\ routes \in [Names -> {NoRoute} \cup {registerFunctionRoute(catalog, n) :
                                              n \in {m \in Names : functionExists(catalog, m)}}]
    /\ \A n \in Names : routes[n].registered => routes[n] = registerFunctionRoute(catalog, n)
    /\ inv = [i \in Slots |-> IdleInv]
    /\ req = [q \in ReqSlots |-> IdleReq]
    /\ logs = [n \in Names |-> <<>>]
    /\ prevSize = [n \in Names |-> 0]
    /\ now = 0
    /\ issued = 2
    /\ reply = NoReply
    /\ builtins = Pristine

SpecSharing == InitSharing /\ [][Invocation(Invs)]_vars

\* The reply the request of invocation i gets when it is the only request the
\* process has ever handled
Alone(i) ==
    LET r1 == IF inv[i].handler = "route"
              THEN RouteEntry(IdleInv, catalog, routes[inv[i].functionName],
                              inv[i].functionName, inv[i].auth, inv[i].body)
              ELSE CatchAllEntry(IdleInv, catalog, inv[i].functionName,
                                 inv[i].auth, inv[i].body)
        r2 == IF r1.pc = "importing" THEN CatchAllResume(r1, catalog) ELSE r1
        r3 == IF r2.pc = "awaiting" /\ r2.promise \in {"promiseFulfils", "promiseRejects"}
              THEN (IF r2.handler = "route" THEN RouteSettle(r2) ELSE CatchAllSettle(r2))
              ELSE r2
    IN  r3.resp

(***************************************************************************)
(* C18: invocations are independent: the reply of an invocation is the one *)
(* its stored record and its own request determine, whatever other         *)
(* invocations of the same or another function ran or failed before or     *)
(* during it; nothing a sandboxed call did is visible to another call.     *)
(***************************************************************************)
C18_InvocationsIndependent ==
    \A i \in Invs : Finished(i) => inv[i].resp = Alone(i)

(***************************************************************************)
(* Aggregation over histories recorded during the last days, read around   *)
(* midnight UTC by a process in a fixed time zone or in one that changed   *)
(* its offset two days ago.                                                *)
(***************************************************************************)
Today == 10                          \* the UTC day on which the model starts
Midnight == Today * HoursPerDay
StartClocks == {Midnight, Midnight + 12, Midnight + HoursPerDay - 2}
AgesInHours == {1, 2 * HoursPerDay, 6 * HoursPerDay + 1, 7 * HoursPerDay + 1}
Zones ==
    {UTC, [before |-> 2, after |-> 2, at |-> 0], [before |-> 0 - 5, after |-> 0 - 5, at |-> 0],
     [before |-> 2, after |-> 1, at |-> Midnight - 2 * HoursPerDay],
     [before |-> 1, after |-> 2, at |-> Midnight - 2 * HoursPerDay]}

RecordedEntry(name, t, status) ==
    [id |-> t, call |-> 0, functionName |-> name, timestamp |-> t, status |-> status,
     inputs |-> BodyOk,
     output |-> IF status = "success" THEN Returned("value", <<NumV>>) ELSE NoValue,
     error |-> IF status = "success" THEN <<>> ELSE <<"Validation error">>]

\* Histories of at most two entries, newest first
RecordedHistories(name, clock) ==
    {<<>>}
    \cup {<<RecordedEntry(name, clock - a, st)>> : a \in AgesInHours, st \in {"success", "error"}}
    \cup {<<RecordedEntry(name, clock - a, st), RecordedEntry(name, clock - b, "success")>> :
             a \in AgesInHours, b \in AgesInHours, st \in {"success", "error"}}

InitAnalytics ==
    /\ catalog = [n \in Names |-> IF n = "f" THEN StartRecord("f", "double", 1) ELSE NoFn]
    /\ routes \in {[n \in Names |-> NoRoute],
                   [n \in Names |-> IF n = "f" THEN registerFunctionRoute(catalog, n)
                                    ELSE NoRoute]}
    /\ inv = [i \in Slots |-> IdleInv]
    /\ req = [q \in ReqSlots |-> IdleReq]
    /\ now \in StartClocks
    /\ logs \in {[n \in Names |-> IF n = "f" THEN h ELSE <<>>] :
                     h \in {g \in RecordedHistories("f", now) :
                               \A j \in 1..(Len(g) - 1) : g[j].timestamp >= g[j + 1].timestamp}}
    /\ prevSize = [n \in Names |-> Len(logs[n])]
    /\ issued = 1
    /\ reply = NoReply
    /\ builtins = Pristine

Aggregating ==
    \/ \E b \in {BodyOk, BodyBad} : Invoke(1, "f", Bearer \o generateApiToken(1), b)
    \/ Resume(1)
    \/ WriteLog(1)
    \/ \E n \in Names, z \in Zones : ReadAnalytics(n, z)

SpecAnalytics == InitAnalytics /\ [][Aggregating]_vars

(***************************************************************************)
(* C19: the aggregate of a function always holds exactly 7 buckets, one    *)
(* for each of the 7 consecutive UTC days ending today, in which every     *)
(* retained entry dated in the window is counted on the UTC day of its     *)
(* timestamp; a day without calls has zero calls and zero errors, also     *)
(* when the function has never been invoked.                               *)
(***************************************************************************)
C19_SevenUtcDayBuckets ==
    [][(reply'.op = "analytics" /\ reply'.code = 200 /\ reply' # reply) =>
          LET daily == reply'.analytics.dailyStats
              history == logs[reply'.functionName]
              today == IsoDate(now)
              on(d) == {j \in 1..Len(history) : IsoDate(history[j].timestamp) = d}
          IN  /\ Len(daily) = WindowDays
              /\ \A k \in 1..Len(daily) :
                    /\ daily[k].date = today - WindowDays + k
                    /\ daily[k].calls = Cardinality(on(daily[k].date))
                    /\ daily[k].errors =
                          Cardinality({j \in on(daily[k].date) : history[j].status = "error"})]_vars

(***************************************************************************)
(* One creation while the server is listening, and invocations before and  *)
(* after it.                                                               *)
(***************************************************************************)
Calling ==
    \/ \E n \in Names, h \in SentHeaders(issued), b \in Bodies : Invoke(1, n, h, b)
    \/ Resume(1)
    \/ WriteLog(1)

SpecInvocable == InitRunning /\ [][Creating(Reqs) \/ Calling]_vars

\* Invocation i was sent to the function request q created, with the token
\* the creation returned (a token no earlier request can carry) and a
\* payload the contract accepts
InvokesCreated(i, q) ==
    /\ CreatedBy(q)
    /\ inv[i].pc # "idle"
    /\ inv[i].functionName = req[q].validatedData.name
    /\ inv[i].auth = Bearer \o req[q].resp.token
    /\ SchemaParse(createInputSchema(catalog, inv[i].functionName), inv[i].body).ok

(***************************************************************************)
(* C20: a function created while the server is listening is invocable at   *)
(* once through the catch-all route: an invocation of its name with the    *)
(* returned token and a valid payload passes authentication, the safety    *)
(* check and the validation and is executed; it is never answered NotFound *)
(* or Unauthorized.                                                        *)
(***************************************************************************)
C20_CreatedIsInvocable ==
    \A i \in Calls, q \in Reqs :
        InvokesCreated(i, q) =>
            /\ inv[i].handler = "catchall"
            /\ Outcome(inv[i].resp) \notin {"NotFound", "Unauthorized"}
            /\ Finished(i) => Executed(i)

(***************************************************************************)
(* C21: every invocation is checked in the order authenticate, validate    *)
(* the input, re-check the safety, execute, in both handlers: a rejected   *)
(* token ends the invocation before the payload is validated, a correct    *)
(* token with an invalid payload ends in ValidationError even when the     *)
(* stored code fails the safety scan, and nothing is executed before the   *)
(* scan has passed.                                                        *)
(***************************************************************************)
C21_AuthenticateValidateScanExecute ==
    \A i \in Slots :
        Finished(i) =>
            /\ (inv[i].tokenValidation \notin {Valid, NotValidated}) =>
                    /\ Outcome(inv[i].resp) = "Unauthorized"
                    /\ inv[i].parsed = NotParsed
                    /\ ~Executed(i)
            /\ (/\ inv[i].tokenValidation = Valid
                /\ functionExists(catalog, inv[i].functionName)
                /\ ~SchemaParse(createInputSchema(catalog, inv[i].functionName),
                                inv[i].body).ok)
                    => Outcome(inv[i].resp) = "ValidationError"
            /\ Executed(i) => inv[i].safetyCheck = Safe

(***************************************************************************)
(* C22: the record is read per invocation: whenever a handler validates a  *)
(* payload, it validates it against the contract the catalog holds for the *)
(* function at that moment, in the per-function handler registered at      *)
(* startup as in the catch-all handler; so after an update of the inputs   *)
(* every later invocation is validated against the updated contract.       *)
(***************************************************************************)
C22_ValidatedAgainstStoredContract ==
    [][\A i \in Slots :
          (/\ inv[i].parsed = NotParsed
           /\ inv'[i].parsed # NotParsed
           /\ functionExists(catalog, inv'[i].functionName))
          => inv'[i].parsed =
                SchemaParse(createInputSchema(catalog, inv'[i].functionName),
                            inv'[i].body)]_vars

(***************************************************************************)
(* Invocations of functions whose code fails in each of the ways the       *)
(* executor tells apart, among them bodies that throw an error of their    *)
(* own whose message reads like one of vm2's.                              *)
(***************************************************************************)
FailingKinds == BodyKinds \cup {"saysTimed", "saysUndef"}
InitFailing ==
    /\ catalog \in {[n \in Names |-> IF n = "f" THEN StartRecord("f", k, 1) ELSE NoFn] :
                        k \in FailingKinds}
    /\ routes \in {[n \in Names |-> NoRoute],
                   [n \in Names |-> IF n = "f" THEN registerFunctionRoute(catalog, n)
                                    ELSE NoRoute]}
    /\ inv = [i \in Slots |-> IdleInv]
    /\ req = [q \in ReqSlots |-> IdleReq]
    /\ logs = [n \in Names |-> <<>>]
    /\ prevSize = [n \in Names |-> 0]
    /\ now = 0
    /\ issued = 1
    /\ reply = NoReply
    /\ builtins = Pristine

SpecFailing == InitFailing /\ [][Invocation(Calls)]_vars

\* The class of what the code did when it was called
Cause(code) ==
    CASE Behaviour(code) = "loop" -> "ExecutionTimeout"
      [] Behaviour(code) = "notDefined" -> "UnauthorizedAccess"
      [] OTHER -> "ExecutionError"

(***************************************************************************)
(* C23: every failure of the executor is reported in exactly one class:    *)
(* timeout exactly when the time limit expired, unauthorized access        *)
(* exactly when the code referenced a binding off the allow-list, runtime  *)
(* error otherwise; and code that references such a binding never answers  *)
(* with a success.                                                         *)
(***************************************************************************)
C23_FailureClasses ==
    \A i \in Calls :
        (Finished(i) /\ Executed(i)) =>
            /\ Outcome(inv[i].resp) # "Success" => Outcome(inv[i].resp) = Cause(inv[i].ran)
            /\ Behaviour(inv[i].ran) = "notDefined" => Outcome(inv[i].resp) # "Success"

\* The entry, as written to the log file, has an output / an error: JSON
\* leaves out a key whose value is undefined
OutputPresent(e) == e.output.ret \notin {"none", "undefined"}
ErrorPresent(e) == e.error # <<>>

(***************************************************************************)
(* C24: every recorded entry has an output exactly when its status is      *)
(* success and an error exactly when its status is error, on every path of *)
(* both handlers.                                                          *)
(***************************************************************************)
C24_OutputIffSuccess ==
    \A n \in Names : \A j \in 1..Len(logs[n]) :
        /\ OutputPresent(logs[n][j]) <=> logs[n][j].status = "success"
        /\ ErrorPresent(logs[n][j]) <=> logs[n][j].status = "error"

\* The names the contract of invocation i declares, and the payload without
\* its undeclared keys
DeclaredNames(i) == {Declared(i)[j].name : j \in 1..Len(Declared(i))}
DeclaredPart(i) == SelectSeq(inv[i].body, LAMBDA pair : pair.k \in DeclaredNames(i))

(***************************************************************************)
(* C25: only the validated inputs reach the function: the names the        *)
(* wrapper reads from the args namespace are declared inputs, the          *)
(* arguments are their values, and a payload key that is not declared      *)
(* changes neither the validation nor the number, position or value of     *)
(* the arguments.                                                          *)
(***************************************************************************)
C25_OnlyDeclaredInputsReachTheCode ==
    \A i \in Calls :
        (Finished(i) /\ Executed(i)) =>
            LET data == inv[i].parsed.data
            IN  /\ \A j \in 1..Len(data) : data[j].k \in DeclaredNames(i)
                /\ inv[i].parsed = SchemaParse(inv[i].inputSchema, DeclaredPart(i))
                /\ Outcome(inv[i].resp) = "Success" =>
                        inv[i].result.args = [j \in 1..Len(data) |-> data[j].v]

\* A payload with an undeclared key was executed with the declared input only
C25_Witness ==
    \E i \in Calls :
        /\ Finished(i) /\ Outcome(inv[i].resp) = "Success"
        /\ HasKey(inv[i].body, "x")
        /\ "x" \notin DeclaredNames(i)
        /\ Len(inv[i].result.args) = 1

(***************************************************************************)
(* Snippet texts for the safety scan: for each expression of the denylist  *)
(* a text that matches it, the same in capitals, with white space where    *)
(* the expression allows it, inside a longer word, cut short and broken;   *)
(* and texts that hold two matches, the later expression first.            *)
(***************************************************************************)
IsQuantifier(atom) == atom \in {"\\s*", "\\s+"}
RECURSIVE Instance(_, _, _)
Instance(regex, star, plus) ==
    IF regex = <<>> THEN <<>>
    ELSE (IF Head(regex) = "\\s*" THEN star
          ELSE IF Head(regex) = "\\s+" THEN plus
          ELSE <<Head(regex)>>) \o Instance(Tail(regex), star, plus)
Exact(regex) == Instance(regex, <<>>, <<" ">>)
Capitals(text) == [j \in 1..Len(text) |-> ToUpper(text[j])]
VariantsOf(regex) ==
    LET e == Exact(regex)
    IN  {e, Capitals(e), Instance(regex, <<" ">>, <<" ", "\n">>),
         <<"x">> \o e \o <<"x">>,
         SubSeq(e, 1, Len(e) - 1),
         SubSeq(e, 1, Len(e) - 1) \o <<"x", e[Len(e)]>>,
         Instance(regex, <<"x">>, <<"x">>)}
ScanTexts ==
    UNION {VariantsOf(Regex(dangerousPatterns[k])) : k \in 1..Len(dangerousPatterns)}
    \cup {Exact(Regex(dangerousPatterns[k + 1])) \o <<";">> \o Exact(Regex(dangerousPatterns[k])) :
              k \in 1..(Len(dangerousPatterns) - 1)}
    \cup {<<"r", "e", "t", "u", "r", "n", " ", "n", ";">>}

ScanDescriptions == {Description("f", ContractN, "L1", "number", NoDoc)}
Scanning ==
    \E q \in Mgmts :
        \/ \E d \in ScanDescriptions : CreateRequest(q, d)
        \/ \E t \in ScanTexts :
              CreateGenerated(q, TextSnippet(req[q].validatedData.name, t))

InitScanning ==
    /\ catalog = [n \in Names |-> NoFn]
    /\ routes = [n \in Names |-> NoRoute]
    /\ inv = [i \in Slots |-> IdleInv]
    /\ req = [q \in ReqSlots |-> IdleReq]
    /\ logs = [n \in Names |-> <<>>]
    /\ prevSize = [n \in Names |-> 0]
    /\ now = 0
    /\ issued = 0
    /\ reply = NoReply
    /\ builtins = Pristine

SpecScanning == InitScanning /\ [][Scanning]_vars

\* The expression occurs in the text: somewhere its characters stand in
\* order, case aside, with white space exactly where the quantifier stands
Occurs(pattern, text) ==
    LET regex == Regex(pattern)
        letters == SelectSeq(regex, LAMBDA c : ~IsQuantifier(c))
        quantified == \E k \in 1..Len(regex) : IsQuantifier(regex[k])
        h == IF quantified
             THEN (CHOOSE k \in 1..Len(regex) : IsQuantifier(regex[k])) - 1
             ELSE Len(letters)
        least == IF quantified /\ regex[h + 1] = "\\s+" THEN 1 ELSE 0
        most == IF quantified THEN Len(text) ELSE 0
    IN  \E a \in 0..Len(text) :
            /\ a + h <= Len(text)
            /\ \A j \in 1..h : ToLower(text[a + j]) = ToLower(letters[j])
            /\ \E gap \in least..most :
                    /\ a + Len(letters) + gap <= Len(text)
                    /\ \A j \in 1..gap : text[a + h + j] \in {" ", "\t", "\n"}
                    /\ \A j \in 1..(Len(letters) - h) :
                            ToLower(text[a + h + gap + j]) = ToLower(letters[h + j])
Matching(text) == {k \in 1..Len(dangerousPatterns) : Occurs(dangerousPatterns[k], text)}

\* The verdict the statement demands for a text
Demanded(text) ==
    IF Matching(text) = {} THEN Safe
    ELSE Unsafe(dangerousPatterns[CHOOSE k \in Matching(text) :
                                      \A m \in Matching(text) : k <= m])

\* Request q has had its generated snippet scanned
Scanned(q) == req[q].pc = "done" /\ req[q].generatedCode.kind = "text"

(***************************************************************************)
(* C26: validateCodeSafety answers unsafe exactly when an expression of    *)
(* the denylist occurs in the snippet as generated, case aside; the reason *)
(* names the first such expression in denylist order; the answer depends   *)
(* on the snippet only, so every scan of a snippet, whatever was scanned   *)
(* before, gives the same answer.                                          *)
(***************************************************************************)
C26_UnsafeIffDenylisted ==
    \A q \in Mgmts :
        Scanned(q) =>
            /\ validateCodeSafety(req[q].generatedCode) = Demanded(req[q].generatedCode.text)
            /\ req[q].resp.code = 400 <=> Matching(req[q].generatedCode.text) # {}
            /\ req[q].resp.code \in {201, 400}

\* A snippet in capitals that holds two expressions was refused, after the
\* same snippet in small letters had been refused
C26_Witness ==
    /\ Scanned(1) /\ Scanned(2)
    /\ req[1].resp.code = 400 /\ req[2].resp.code = 400
    /\ Cardinality(Matching(req[1].generatedCode.text)) >= 2
    /\ req[2].generatedCode.text = Capitals(Exact(Regex("process.")))

(***************************************************************************)
(* Typed sources for the cleaning passes: functions that use the type      *)
(* syntax the passes strip (export markers, optional marks, return types,  *)
(* parameter types, variable annotations) and nothing else of TypeScript   *)
(***************************************************************************)
TypedSources ==
    {Source("f",
        <<"f", "u", "n", "c", "t", "i", "o", "n", " ", "f", "(", "n", ":", " ",
          "n", "u", "m", "b", "e", "r", ")", ":", " ", "n", "u", "m", "b", "e",
          "r", " ", "{", " ", "r", "e", "t", "u", "r", "n", " ", "n", " ", "*",
          " ", "2", ";", " ", "}">>,
        "value"),
     Source("f",
        <<"e", "x", "p", "o", "r", "t", " ", "f", "u", "n", "c", "t", "i", "o",
          "n", " ", "f", "(", "n", ":", " ", "n", "u", "m", "b", "e", "r", ",",
          " ", "m", "?", ":", " ", "s", "t", "r", "i", "n", "g", ")", ":", " ",
          "n", "u", "m", "b", "e", "r", "[", "]", " ", "{", "\n", " ", " ", "r",
          "e", "t", "u", "r", "n", " ", "[", "n", " ", "*", " ", "2", "]", ";",
          "\n", "}">>,
        "value"),
     Source("f",
        <<"f", "u", "n", "c", "t", "i", "o", "n", " ", "f", "(", "n", ":", " ",
          "n", "u", "m", "b", "e", "r", ")", " ", "{", " ", "c", "o", "n", "s",
          "t", " ", "k", ":", " ", "n", "u", "m", "b", "e", "r", " ", "=", " ",
          "2", ";", " ", "l", "e", "t", " ", "r", ":", " ", "n", "u", "m", "b",
          "e", "r", " ", "=", " ", "n", " ", "*", " ", "k", ";", " ", "r", "e",
          "t", "u", "r", "n", " ", "r", ";", " ", "}">>,
        "value"),
     Source("f",
        <<"f", "u", "n", "c", "t", "i", "o", "n", " ", "f", "(", "$", "$", "$",
          ":", " ", "n", "u", "m", "b", "e", "r", ")", " ", "{", " ", "r", "e",
          "t", "u", "r", "n", " ", "2", ";", " ", "}">>,
        "value"),
     Source("f",
        <<"e", "x", "p", "o", "r", "t", " ", "c", "o", "n", "s", "t", " ", "f",
          " ", "=", " ", "(", "n", ":", " ", "n", "u", "m", "b", "e", "r", ")",
          ":", " ", "n", "u", "m", "b", "e", "r", " ", "=", ">", " ", "{", " ",
          "r", "e", "t", "u", "r", "n", " ", "n", " ", "*", " ", "2", ";", " ",
          "}", ";">>,
        "throw"),
     Source("f",
        <<" ", " ", "f", "u", "n", "c", "t", "i", "o", "n", " ", "f", "(", "n",
          ")", " ", "{", " ", "r", "e", "t", "u", "r", "n", " ", "n", ";", " ",
          "}", "\n">>,
        "value"),
     Source("f",
        <<"f", "u", "n", "c", "t", "i", "o", "n", " ", "f", "(", "n", ":", " ",
          "n", "u", "m", "b", "e", "r", ")", ":", " ", "n", "u", "m", "b", "e",
          "r", " ", "{", " ", "w", "h", "i", "l", "e", " ", "(", "t", "r", "u",
          "e", ")", " ", "{", "}", " ", "}">>,
        "loop"),
     Source("f",
        <<"a", "s", "y", "n", "c", " ", "f", "u", "n", "c", "t", "i", "o", "n",
          " ", "f", "(", "n", ":", " ", "n", "u", "m", "b", "e", "r", ")", ":",
          " ", "P", "r", "o", "m", "i", "s", "e", "<", "n", "u", "m", "b", "e",
          "r", ">", " ", "{", " ", "r", "e", "t", "u", "r", "n", " ", "n", ";",
          " ", "}">>,
        "promiseFulfils"),
     Source("f",
        <<"f", "u", "n", "c", "t", "i", "o", "n", " ", "f", "(", "n", ":", " ",
          "n", "u", "m", "b", "e", "r", ")", ":", " ", "v", "o", "i", "d", " ",
          "{", " ", "}">>,
        "undefined")}

InitCleaning ==
    /\ catalog \in {[n \in Names |-> IF n = "f"
                                     THEN [StartRecord("f", "double", 1) EXCEPT !.code = c]
                                     ELSE NoFn] : c \in TypedSources}
    /\ routes \in {[n \in Names |-> NoRoute],
                   [n \in Names |-> IF n = "f" THEN registerFunctionRoute(catalog, n)
                                    ELSE NoRoute]}
    /\ inv = [i \in Slots |-> IdleInv]
    /\ req = [q \in ReqSlots |-> IdleReq]
    /\ logs = [n \in Names |-> <<>>]
    /\ prevSize = [n \in Names |-> 0]
    /\ now = 0
    /\ issued = 1
    /\ reply = NoReply
    /\ builtins = Pristine

SpecCleaning == InitCleaning /\ [][Invocation(Calls)]_vars

(***************************************************************************)
(* C27: the executor's cleaning of a source (export markers, then return   *)
(* types and parameter types, then variable annotations) is idempotent on  *)
(* sources that use only the stripped type syntax: cleaning the cleaned    *)
(* code of an invocation gives the cleaned code again.                     *)
(***************************************************************************)
C27_CleaningIdempotent ==
    \A i \in Slots :
        inv[i].ran.kind = "text" => cleanedCode(inv[i].cleaned) = inv[i].cleaned

\* Update q answers 200 in this step and renames its function
RenameSucceeds(q) ==
    /\ req[q].pc # "done" /\ req'[q].pc = "done"
    /\ req'[q].op = "update" /\ req'[q].resp.code = 200
    /\ req'[q].validatedData.name # req'[q].functionName

(***************************************************************************)
(* C28: however create, update and delete requests interleave, no two      *)
(* records of the catalog carry the same token; and when an update that    *)
(* renames f to g succeeds, the catalog holds g and no record f with g's   *)
(* token.                                                                  *)
(***************************************************************************)
C28_TokensStayDistinct ==
    [][/\ \A m \in Names, n \in Names :
             (m # n /\ catalog'[m] # NoFn /\ catalog'[n] # NoFn)
                 => catalog'[m].token # catalog'[n].token
       /\ \A q \in Mgmts :
             RenameSucceeds(q) =>
                 LET f == req'[q].functionName
                     g == req'[q].validatedData.name
                 IN  /\ catalog'[g] # NoFn
                     /\ catalog'[f] = NoFn \/ catalog'[f].token # catalog'[g].token]_vars

\* Requests that delete f and create it again, beside one invocation
Replacing ==
    \E q \in Mgmts :
        \/ DeleteRequest(q, "f")
        \/ \E d \in ScanDescriptions : CreateRequest(q, d)
        \/ \E c \in GeneratorAnswers(req[q].validatedData.name) : CreateGenerated(q, c)
Served ==
    \/ \E h \in SentHeaders(issued), b \in Bodies : Invoke(1, "f", h, b)
    \/ Resume(1)
    \/ Settle(1)
    \/ WriteLog(1)

SpecReplacing == InitRunning /\ [][Served \/ Replacing]_vars

\* The token the caller presented
Presented(i) == Trim(Substring(inv[i].auth, BearerLen))

(***************************************************************************)
(* C29: in an invocation that the catch-all handler executes, the record   *)
(* whose token authenticated the request, the record whose code runs and   *)
(* the record whose contract validates the payload are one version of one  *)
(* catalog record, whatever updates, deletions and re-creations of that    *)
(* name happen while the invocation is suspended: the executed record      *)
(* carries the presented token, the code that runs is its code and the     *)
(* schema is built from its inputs.                                        *)
(***************************************************************************)
C29_OneRecordPerInvocation ==
    \A i \in Slots :
        (inv[i].handler = "catchall" /\ inv[i].ran # NoCode) =>
            /\ Presented(i) = inv[i].storedFunction.token
            /\ inv[i].ran = inv[i].storedFunction.code
            /\ \A k \in 1..Len(inv[i].inputSchema) :
                   \E j \in 1..Len(inv[i].storedFunction.description.inputs) :
                       inv[i].storedFunction.description.inputs[j].name
                           = inv[i].inputSchema[k].key

(***************************************************************************)
(* C30: the status of every recorded entry matches the response of its     *)
(* invocation: the entry says success exactly when the invocation executed *)
(* the function and answered 200, also when the function is deleted while  *)
(* the invocation is in flight (not found after authentication).           *)
(***************************************************************************)
C30_StatusMatchesResponse ==
    \A n \in Names : \A j \in 1..Len(logs[n]) :
        LET e == logs[n][j]
        IN  (e.call \in Slots /\ inv[e.call].log = "written") =>
                (e.status = "success"
                    <=> (Executed(e.call) /\ inv[e.call].resp.code = 200))

====
